---- MODULE Spec2Model ----
(***************************************************************************)
(* TubeTracks: the Tkinter front end (src/tubetracks_gui.py) and the       *)
(* YouTube plugin (src/plugins/youtube.py).                                *)
(*                                                                         *)
(* Two threads touch the state of App: the Tk main loop, which runs the    *)
(* button commands (_start, _cancel) and _poll_queue, each to completion,  *)
(* and the batch worker thread (_run_worker), whose statements interleave  *)
(* with them.  They share the queue and the cancel event only.             *)
(***************************************************************************)
EXTENDS Integers, Sequences, FiniteSets, TLC

(* ---------------------------------------------------------------- bounds *)
\* URLs in one batch (the URL text box holds 1..MaxUrls lines).
MaxUrls == 2
\* progress-hook callbacks one download_audio call makes at most.
MaxProgress == 1
\* progress-hook invocations one yt-dlp extraction attempt makes at most.
MaxHooks == 2
\* characters of the longest raw error text given to _strip_ansi.
MaxChars == 6
\* bursts of messages the producers put in one behaviour of ConsumerSpec.
MaxBursts == 3
\* loop iterations the batch worker gets through between two polls.
MaxRun == 10
\* lines of the longest log text (a traceback.format_exc()).
MaxTextLines == 60

(* ------------------------------------------------------ program constants *)
\* _collect_options: the accepted range of "concurrent downloads".
MinConcurrent == 1
MaxConcurrent == 5
\* _poll_queue: messages handled by one poll.
max_messages == 50
\* queue.Queue(): maxsize, 0 for a queue without a limit.
QueueMaxsize == 0

VARIABLES
    \* ---- App fields
    worker,          \* _worker: "none" (None), "alive", "dead" (thread ended)
    cancel_event,    \* _cancel_event.is_set()
    queue,           \* _queue: the messages not yet taken by _poll_queue
    is_running,      \* _is_running
    run_errors,      \* _run_errors
    run_cancelled,   \* _run_cancelled
    start_btn,       \* state of the Start button
    cancel_btn,      \* state of the Cancel button
    status_var,      \* status_var (the status line)
    failed_warning,  \* messagebox "Some downloads failed" shown since the last _start
    \* ---- locals of the running _run_worker
    pc,              \* position of the worker thread
    urls,            \* len(urls): the batch is the URLs 1..urls
    options,         \* the options dict handed to the thread
    idx,             \* idx of the for loop
    completed,       \* completed
    result,          \* result
    nprogress,       \* progress callbacks made by the download_audio call in flight
    \* ---- history of the current batch (not program state)
    results_put,     \* per URL: how many "result" messages the worker has put
    terminals,       \* the terminal messages (done, cancelled, error) the worker has put
    last_put,        \* type of the last message the worker has put
    handed,          \* URLs for which download_audio has been invoked
    passed,          \* the options the last download_audio call was given
    handed_after_cancel, \* ... invoked while the cancel event was already set
    raised,          \* the exception download_audio raised in this iteration, or "none"
    cancel_at,       \* where the worker stood when _cancel set the event
    \* ---- YouTubeConverter.download (one call)
    dl,
    \* ---- the history of the queue, from one _start to the next
    sent,            \* the messages put on the queue, in order
    handled,         \* the messages whose handler has run and returned, in order
    \* ---- the log widget and the producers (specification ConsumerSpec)
    log_lines,       \* lines held by log_text
    produced,        \* bursts of messages the producers have put
    \* ---- _collect_options as a function of the form (specification OptSpec)
    form,            \* the form fields it reads
    collected,       \* the options it returned, or NotCollected
    \* ---- a helper function of the plugin applied on its own (StripSpec, MergeSpec)
    call,            \* its arguments and, once it has returned, its result
    \* ---- a batch run through the plugin (specification RunSpec)
    extractions,     \* YoutubeDL.download attempts made for the batch so far
    \* ---- yt-dlp's download archive file, shared by all calls of download
    archive,
    \* ---- the preview: _is_previewing, _preview_cancel_event, the Preview and Stop
    \* ---- Preview buttons, and the thread running _preview_worker
    preview,
    \* ---- _last_playlist_index: 0 for None (an index of 0 is treated as none, 1335)
    last_playlist_index,
    \* ---- _pending_logs and the _poll_queue callbacks Tk holds (root.after)
    poll

gui_vars == <<worker, cancel_event, queue, is_running, run_errors, run_cancelled,
              start_btn, cancel_btn, status_var, failed_warning>>
worker_vars == <<pc, urls, options, idx, completed, result, nprogress>>
hist_vars == <<results_put, terminals, last_put, handed, passed, handed_after_cancel, raised,
              cancel_at>>
cons_vars == <<log_lines, sent, handled, produced>>
opt_vars == <<form, collected, call>>
\* what the batch worker and the Tk handlers of Spec never touch
env_vars == <<log_lines, produced, opt_vars, extractions, archive, preview,
             last_playlist_index, poll>>
\* what one call of YouTubeConverter.download never touches (the archive apart)
caller_vars == <<gui_vars, worker_vars, hist_vars, cons_vars, opt_vars, extractions,
                preview, last_playlist_index, poll>>
vars == <<gui_vars, worker_vars, hist_vars, dl, sent, handled, env_vars>>

(* ------------------------------------------------------------ ErrorCode *)
ErrorCode == {"NONE", "NETWORK_ERROR", "PERMISSION_ERROR", "TIMEOUT_ERROR",
              "FORBIDDEN_ERROR", "CANCELLED", "UNKNOWN_ERROR"}

NoResult == [url |-> 0, success |-> FALSE, error_code |-> "NONE", error_message |-> "none"]

DownloadResult(url, success, code, message) ==
    [url |-> url, success |-> success, error_code |-> code, error_message |-> message]


(* --------------------------------------------------- _collect_options *)
\* A form field read through tk.IntVar.get(): ok = FALSE when the read raises
\* tk.TclError / ValueError (the field holds no integer).
FormInt(ok, val) == [ok |-> ok, val |-> val]
FormValues == {FormInt(FALSE, 0), FormInt(TRUE, 0), FormInt(TRUE, 2), FormInt(TRUE, 6)}

\* Variant: the lower limit is not enforced.
CollectConcurrentNoFloor(f) ==
    IF ~f.ok THEN 1
    ELSE IF f.val > MaxConcurrent THEN MaxConcurrent
    ELSE f.val

\* concurrent = int(self.concurrent_var.get()), corrected into 1..5; 1 when unreadable.
CollectConcurrent(f) ==
    IF ~f.ok THEN 1
    ELSE IF f.val < MinConcurrent THEN MinConcurrent
    ELSE IF f.val > MaxConcurrent THEN MaxConcurrent
    ELSE f.val

\* The dict _collect_options returns (the entries the model reads).
CollectOptions(f) == [concurrent_downloads |-> CollectConcurrent(f)]

(* ------------------------------------------------------------ messages *)
StatusMsg(i, n) == [type |-> "status", text |-> "Processing", idx |-> i, total |-> n]
LogMsg(text, i) == [type |-> "log", text |-> text, url |-> i]
ProgressMsg(i)  == [type |-> "progress", url |-> i]
ResultMsg(r, c, n) == [type |-> "result", result |-> r, completed |-> c, total |-> n]
CancelledMsg == [type |-> "cancelled"]
DoneMsg == [type |-> "done"]
ErrorMsg == [type |-> "error"]

(* ----------------------------------------------- the Tk side: handlers *)
\* The fields of App a queue handler reads and writes, as one record.
UiState == [is_running |-> is_running, run_errors |-> run_errors,
            run_cancelled |-> run_cancelled, start_btn |-> start_btn,
            cancel_btn |-> cancel_btn, status_var |-> status_var,
            failed_warning |-> failed_warning,
            is_previewing |-> preview.is_previewing,
            preview_btn |-> preview.preview_btn,
            stop_preview_btn |-> preview.stop_preview_btn,
            last_playlist_index |-> last_playlist_index]

\* The preview, with the fields a queue handler or _set_running has written.
PreviewAfter(s) ==
    [preview EXCEPT !.is_previewing = s.is_previewing,
                    !.preview_btn = s.preview_btn,
                    !.stop_preview_btn = s.stop_preview_btn]

\* _set_running(running)
SetRunning(s, running) ==
    [s EXCEPT !.is_running = running,
              !.start_btn = IF running THEN "disabled" ELSE "normal",
              !.cancel_btn = IF running THEN "normal" ELSE "disabled",
              !.preview_btn = IF running THEN "disabled" ELSE "normal"]

\* _handle_progress(payload): what it keeps of a payload of a playlist entry
HandleProgress(s, m) ==
    IF /\ "playlist_index" \in DOMAIN m
       /\ m.playlist_index # 0 /\ m.playlist_count # 0
       /\ m.status = "downloading"
       /\ m.playlist_index # s.last_playlist_index
    THEN [s EXCEPT !.last_playlist_index = m.playlist_index]
    ELSE s

\* _handle_result(msg)
HandleResult(s, m) ==
    LET r == m.result
        s1 == IF r.success THEN s
              ELSE [s EXCEPT !.run_errors =
                        Append(@, [url |-> r.url, error |-> r.error_message])]
    IN [s1 EXCEPT !.status_var = "Completed"]

\* Variant: the handler of "cancelled" leaves the running state as it is.
HandleCancelledStillRunning(s) ==
    [s EXCEPT !.status_var = "Cancelled", !.run_cancelled = TRUE]

\* _handle_cancelled()
HandleCancelled(s) ==
    SetRunning([s EXCEPT !.status_var = "Cancelled", !.run_cancelled = TRUE], FALSE)

\* _handle_done()
HandleDone(s) ==
    LET s1 == SetRunning([s EXCEPT !.status_var = "Done",
                                   !.last_playlist_index = 0], FALSE)
    IN IF s1.run_errors # <<>> /\ ~s1.run_cancelled
       THEN [s1 EXCEPT !.failed_warning = TRUE]
       ELSE s1

\* Variant: the handler of preview_complete leaves the previewing flag set.
HandlePreviewCompleteFlagLeft(s) ==
    [s EXCEPT !.status_var = "Idle", !.preview_btn = "normal",
              !.start_btn = "normal", !.stop_preview_btn = "disabled"]

\* elif mtype == "preview_complete":
HandlePreviewComplete(s) ==
    [s EXCEPT !.is_previewing = FALSE,
              !.status_var = "Idle",
              !.preview_btn = "normal",
              !.start_btn = "normal",
              !.stop_preview_btn = "disabled"]

\* _handle_queue_message(msg)
HandleQueueMessage(s, m) ==
    CASE m.type = "log"       -> s
      [] m.type = "status"    -> [s EXCEPT !.status_var = m.text]
      [] m.type = "progress"  -> HandleProgress(s, m)
      [] m.type = "result"    -> HandleResult(s, m)
      [] m.type = "cancelled" -> HandleCancelled(s)
      [] m.type = "done"      -> HandleDone(s)
      [] m.type = "error"     -> SetRunning([s EXCEPT !.status_var = "Error"], FALSE)
      [] m.type = "preview_complete" -> HandlePreviewComplete(s)
      [] OTHER                -> s

\* The while loop of _poll_queue: the first k queued messages, in order.
RECURSIVE HandleMessages(_, _, _)
HandleMessages(s, msgs, k) ==
    IF k = 0 \/ msgs = <<>> THEN s
    ELSE HandleMessages(HandleQueueMessage(s, Head(msgs)), Tail(msgs), k - 1)

Min(a, b) == IF a < b THEN a ELSE b

RECURSIVE Drop(_, _)
Drop(msgs, k) == IF k = 0 \/ msgs = <<>> THEN msgs ELSE Drop(Tail(msgs), k - 1)

(* ------------------------------------------------------------- Init *)
NotCancelled == [pc |-> "none", idx |-> 0]
NotPassed == [concurrent_downloads |-> 0]
DlIdle == [pc |-> "idle"]

\* After __init__: _pending_logs is empty, and the _poll_queue call at its end (46)
\* has found the queue empty and has scheduled the next poll.
PollIdle ==
    [pending_logs |-> 0,   \* lines in _pending_logs
     after |-> 1]          \* _poll_queue callbacks scheduled with root.after

\* No preview was asked for yet: _is_previewing = False, the event clear, Preview
\* enabled and Stop Preview disabled, no thread.
PreviewIdle ==
    [is_previewing |-> FALSE, preview_cancel_event |-> FALSE,
     preview_btn |-> "normal", stop_preview_btn |-> "disabled",
     pc |-> "idle", info |-> "none", in_flight |-> 0, previews |-> 0,
     puts |-> <<>>]   \* history: what the thread of the last preview has put

GuiInit ==
    /\ worker = "none"
    /\ cancel_event = FALSE
    /\ queue = <<>>
    /\ is_running = FALSE
    /\ run_errors = <<>>
    /\ run_cancelled = FALSE
    /\ start_btn = "normal"
    /\ cancel_btn = "disabled"
    /\ status_var = "Idle"
    /\ failed_warning = FALSE
    /\ pc = "idle"
    /\ urls = 0
    /\ options = CollectOptions(FormInt(TRUE, 3))
    /\ idx = 0
    /\ completed = 0
    /\ result = NoResult
    /\ nprogress = 0
    /\ results_put = [i \in 1..0 |-> 0]
    /\ terminals = <<>>
    /\ last_put = "none"
    /\ handed = {}
    /\ passed = NotPassed
    /\ handed_after_cancel = {}
    /\ raised = "none"
    /\ cancel_at = NotCancelled
    /\ preview = PreviewIdle
    /\ last_playlist_index = 0
    /\ poll = PollIdle

\* The variables a specification does not follow stay at these values.
NotCollected == [done |-> FALSE]
FormIdle == [concurrent |-> FormInt(TRUE, 3), retries |-> FormInt(TRUE, 3)]
ConsIdle == log_lines = 0 /\ sent = <<>> /\ handled = <<>> /\ produced = <<>>
NoCall == [fn |-> "none", done |-> FALSE]
OptIdle == form = FormIdle /\ collected = NotCollected /\ call = NoCall
EnvIdle == ConsIdle /\ OptIdle /\ extractions = 0 /\ archive = {}

Init == GuiInit /\ dl = DlIdle /\ EnvIdle

(* ------------------------------------------- the Tk side: the buttons *)
\* Variant: _start does not look at the worker thread.
WorkerIsAliveNever == FALSE

\* if self._worker and self._worker.is_alive(): return     (first statement of _start)
WorkerIsAlive == worker = "alive"

\* Variant: _start leaves the failures of the previous batch in the list.
RunErrorsKept(errors) == errors

\* self._run_errors.clear()
RunErrorsCleared(errors) == <<>>

\* _validate_inputs passes with n >= 1 URLs, or shows an error box (n = 0).
\* Start is a ttk.Button: its command runs only while the button is enabled.
Start(n, f) ==
    /\ start_btn = "normal"
    /\ IF WorkerIsAlive \/ n = 0
       THEN UNCHANGED <<gui_vars, worker_vars, hist_vars, sent, handled, preview>>
       ELSE LET s == SetRunning([UiState EXCEPT !.run_errors = RunErrorsCleared(@),
                                                !.run_cancelled = FALSE,
                                                !.status_var = "Starting",
                                                !.failed_warning = FALSE], TRUE)
            IN /\ options' = CollectOptions(f)
               /\ cancel_event' = FALSE
               /\ run_errors' = s.run_errors
               /\ run_cancelled' = s.run_cancelled
               /\ status_var' = s.status_var
               /\ failed_warning' = s.failed_warning
               /\ is_running' = s.is_running
               /\ start_btn' = s.start_btn
               /\ cancel_btn' = s.cancel_btn
               /\ worker' = "alive"
               /\ pc' = "init"
               /\ urls' = n
               /\ idx' = 0
               /\ completed' = 0
               /\ result' = NoResult
               /\ nprogress' = 0
               /\ results_put' = [i \in 1..n |-> 0]
               /\ terminals' = <<>>
               /\ last_put' = "none"
               /\ handed' = {}
               /\ passed' = NotPassed
               /\ handed_after_cancel' = {}
               /\ raised' = "none"
               /\ cancel_at' = NotCancelled
               /\ sent' = <<>>
               /\ handled' = <<>>
               /\ preview' = PreviewAfter(s)
               /\ UNCHANGED queue
    /\ UNCHANGED <<dl, log_lines, produced, opt_vars, extractions, archive,
                   last_playlist_index, poll>>

\* _cancel, the command of the Cancel button.
Cancel ==
    /\ cancel_btn = "normal"
    /\ IF worker = "alive"
       THEN /\ cancel_event' = TRUE
            /\ status_var' = "Cancelling"
            /\ cancel_btn' = "disabled"
            /\ cancel_at' = IF cancel_event THEN cancel_at ELSE [pc |-> pc, idx |-> idx]
       ELSE UNCHANGED <<cancel_event, status_var, cancel_btn, cancel_at>>
    /\ UNCHANGED <<worker, queue, is_running, run_errors, run_cancelled, start_btn,
                   failed_warning, worker_vars, results_put, terminals, last_put,
                   handed, passed, handed_after_cancel, raised, dl, sent, handled, env_vars>>

\* Variant: the poll drains the whole queue.
PollCountAll(q) == Len(q)

\* while processed < max_messages: get_nowait() until queue.Empty
PollCount(q) == Min(Len(q), max_messages)

\* _poll_queue: up to max_messages queued messages, handled in order.
PollQueue ==
    /\ queue # <<>>
    /\ LET k == PollCount(queue)
           s == HandleMessages(UiState, queue, k)
       IN /\ queue' = Drop(queue, k)
          /\ is_running' = s.is_running
          /\ run_errors' = s.run_errors
          /\ run_cancelled' = s.run_cancelled
          /\ start_btn' = s.start_btn
          /\ cancel_btn' = s.cancel_btn
          /\ status_var' = s.status_var
          /\ failed_warning' = s.failed_warning
          /\ handled' = handled \o SubSeq(queue, 1, k)
          /\ preview' = PreviewAfter(s)
          /\ last_playlist_index' = s.last_playlist_index
    /\ UNCHANGED <<worker, cancel_event, worker_vars, hist_vars, dl, sent, log_lines,
                   produced, opt_vars, extractions, archive, poll>>

(* ------------------------------------------- the worker: _run_worker *)
TerminalTypes == {"done", "cancelled", "error"}

TypesIn(msgs, types) ==
    LET sel == SelectSeq(msgs, LAMBDA m : m.type \in types)
    IN [k \in 1..Len(sel) |-> sel[k].type]

\* Variant: a queue that holds max_messages messages at most.
PutWaitsWhenFull(n) == n >= max_messages

\* Queue.put(item) with n items queued waits while the queue is full, which a
\* queue of maxsize 0 never is.
PutWaits(n) == QueueMaxsize > 0 /\ n >= QueueMaxsize

\* self._queue.put(m) for each m of msgs, none of them waiting
Put(msgs) ==
    /\ \A j \in 1..Len(msgs) : ~PutWaits(Len(queue) + j - 1)
    /\ queue' = queue \o msgs
    /\ sent' = sent \o msgs
    /\ terminals' = terminals \o TypesIn(msgs, TerminalTypes)
    /\ last_put' = IF msgs = <<>> THEN last_put ELSE msgs[Len(msgs)].type
    /\ results_put' = [i \in DOMAIN results_put |->
                          results_put[i] + Len(SelectSeq(msgs,
                              LAMBDA m : m.type = "result" /\ m.result.url = i))]

NoPut == UNCHANGED <<queue, sent, results_put, terminals, last_put>>

\* The keys _run_worker reads from options (those the model carries).
RequiredOptions == {"concurrent_downloads"}

\* try: snapshot the options; completed = 0; total = len(urls)
WorkerInit ==
    /\ pc = "init"
    /\ IF RequiredOptions \subseteq DOMAIN options
       THEN /\ completed' = 0
            /\ idx' = 1
            /\ pc' = "check"
            /\ NoPut
       ELSE /\ Put(<<LogMsg("Configuration error", 0), ErrorMsg>>)
            /\ pc' = "exit"
            /\ UNCHANGED <<completed, idx>>
    /\ UNCHANGED <<worker, cancel_event, is_running, run_errors, run_cancelled,
                   start_btn, cancel_btn, status_var, failed_warning, urls, options,
                   result, nprogress, handed, passed, handed_after_cancel, raised, cancel_at, dl, handled, env_vars>>

\* Variant: the loop never looks at the cancel event.
CancelSeenNever == FALSE

\* if self._cancel_event.is_set(): at the head of the loop body
CancelSeen == cancel_event

\* for idx, url in enumerate(urls, 1): if cancelled: put "cancelled"; return
WorkerCheck ==
    /\ pc = "check"
    /\ idx <= urls
    /\ IF CancelSeen
       THEN /\ Put(<<CancelledMsg>>)
            /\ pc' = "exit"
       ELSE /\ pc' = "status"
            /\ NoPut
    /\ UNCHANGED <<worker, cancel_event, is_running, run_errors, run_cancelled,
                   start_btn, cancel_btn, status_var, failed_warning, urls, options,
                   idx, completed, result, nprogress, handed, passed, handed_after_cancel,
                   raised, cancel_at, dl, handled, env_vars>>

\* the loop is exhausted: self._queue.put({"type": "done"})
WorkerDone ==
    /\ pc = "check"
    /\ idx > urls
    /\ Put(<<DoneMsg>>)
    /\ pc' = "exit"
    /\ UNCHANGED <<worker, cancel_event, is_running, run_errors, run_cancelled,
                   start_btn, cancel_btn, status_var, failed_warning, urls, options,
                   idx, completed, result, nprogress, handed, passed, handed_after_cancel,
                   raised, cancel_at, dl, handled, env_vars>>

\* Variant: the two puts in the other order.
AnnounceLogFirst(i, n) == <<LogMsg("url", i), StatusMsg(i, n)>>

\* self._queue.put({"type": "status", "text": f"Processing {idx}/{total}"})
\* self._queue.put({"type": "log", "text": f"-> {url}"})
Announce(i, n) == <<StatusMsg(i, n), LogMsg("url", i)>>

\* the two puts that open an iteration of the loop
WorkerAnnounce ==
    /\ pc = "status"
    /\ Put(Announce(idx, urls))
    /\ pc' = "call"
    /\ UNCHANGED <<worker, cancel_event, is_running, run_errors, run_cancelled,
                   start_btn, cancel_btn, status_var, failed_warning, urls, options,
                   idx, completed, result, nprogress, handed, passed, handed_after_cancel,
                   raised, cancel_at, dl, handled, env_vars>>

\* Variant: the worker reads the form again for each call.
CallOptionsFromForm(opts, f) == CollectOptions(f.concurrent)

\* concurrent_downloads=concurrent, ...: the values taken from options at 1115-1128
CallOptions(opts, f) == opts

\* result = downloader.download_audio(url=url, ..., cancel_event=self._cancel_event, ...)
WorkerCall ==
    /\ pc = "call"
    /\ pc' = "download"
    /\ nprogress' = 0
    /\ handed' = handed \cup {idx}
    /\ passed' = CallOptions(options, form)
    /\ handed_after_cancel' = IF cancel_event THEN handed_after_cancel \cup {idx}
                              ELSE handed_after_cancel
    /\ raised' = "none"
    /\ UNCHANGED <<gui_vars, urls, options, idx, completed, result, results_put,
                   terminals, last_put, cancel_at, dl, sent, handled, env_vars>>

\* progress_callback(payload), called by download_audio on the worker thread
ProgressCallback ==
    /\ pc = "download"
    /\ nprogress < MaxProgress
    /\ nprogress' = nprogress + 1
    /\ Put(<<ProgressMsg(idx)>>)
    /\ UNCHANGED <<worker, cancel_event, is_running, run_errors, run_cancelled,
                   start_btn, cancel_btn, status_var, failed_warning, pc, urls, options,
                   idx, completed, result, handed, passed, handed_after_cancel, raised,
                   cancel_at, dl, handled, env_vars>>

\* What download_audio may return for URL i: a success, a skip, a failure with an
\* error code, or CANCELLED once it has observed the cancel event.
DownloadAudioResults(i, cancelled) ==
    {DownloadResult(i, TRUE, "NONE", "none"),
     DownloadResult(i, FALSE, "NONE", "skipped")}
    \cup {DownloadResult(i, FALSE, c, "error") :
            c \in {"NETWORK_ERROR", "PERMISSION_ERROR", "TIMEOUT_ERROR",
                   "FORBIDDEN_ERROR", "UNKNOWN_ERROR"}}
    \cup (IF cancelled THEN {DownloadResult(i, FALSE, "CANCELLED", "cancelled")} ELSE {})

\* download_audio returns
DownloadReturn ==
    /\ pc = "download"
    /\ \E r \in DownloadAudioResults(idx, cancel_event) : result' = r
    /\ pc' = "emit"
    /\ nprogress' = 0
    /\ UNCHANGED <<gui_vars, urls, options, idx, completed, hist_vars, dl, sent, handled, env_vars>>

\* The exception classes the except clauses of the loop body tell apart.
Exceptions == {"PermissionError", "ConnectionError", "TimeoutError", "Exception"}

\* Variant: "except Exception" placed first, so it catches everything.
ExceptionCodeCatchAllFirst(e) == "UNKNOWN_ERROR"

\* except PermissionError / ConnectionError / TimeoutError / Exception: the error code
ExceptionCode(e) ==
    CASE e = "PermissionError" -> "PERMISSION_ERROR"
      [] e = "ConnectionError" -> "NETWORK_ERROR"
      [] e = "TimeoutError"    -> "TIMEOUT_ERROR"
      [] OTHER                 -> "UNKNOWN_ERROR"

\* the messages an except clause puts: one log line, and the traceback for Exception
ExceptionLogs(e, i) ==
    IF e = "Exception" THEN <<LogMsg(e, i), LogMsg("Traceback", i)>> ELSE <<LogMsg(e, i)>>

\* download_audio raises e, and the matching except clause runs
DownloadRaise ==
    /\ pc = "download"
    /\ \E e \in Exceptions :
        /\ result' = DownloadResult(idx, FALSE, ExceptionCode(e), "error")
        /\ raised' = e
        /\ Put(ExceptionLogs(e, idx))
    /\ pc' = "emit"
    /\ nprogress' = 0
    /\ UNCHANGED <<worker, cancel_event, is_running, run_errors, run_cancelled,
                   start_btn, cancel_btn, status_var, failed_warning, urls, options,
                   idx, completed, handed, passed, handed_after_cancel, cancel_at, dl, handled, env_vars>>

\* Variant: a CANCELLED request gets no result message, only the "cancelled" one.
ResultPutUnlessCancelled(r, c, n) ==
    IF r.error_code = "CANCELLED" THEN <<>> ELSE <<ResultMsg(r, c, n)>>

\* self._queue.put({"type": "result", "result": result, "completed": ..., "total": ...})
ResultPut(r, c, n) == <<ResultMsg(r, c, n)>>

\* completed += 1; put the result message
WorkerResult ==
    /\ pc = "emit"
    /\ completed' = completed + 1
    /\ Put(ResultPut(result, completed + 1, urls))
    /\ pc' = "post"
    /\ UNCHANGED <<worker, cancel_event, is_running, run_errors, run_cancelled,
                   start_btn, cancel_btn, status_var, failed_warning, urls, options,
                   idx, result, nprogress, handed, passed, handed_after_cancel, raised,
                   cancel_at, dl, handled, env_vars>>

\* Variant: every unsuccessful result ends the batch as cancelled.
ResultCancelledIfFailed(r) == ~r.success

\* if result.error_code == downloader.ErrorCode.CANCELLED
ResultCancelled(r) == r.error_code = "CANCELLED"

\* Variant: "cancelled" is put, but the return is missing and the loop goes on.
WorkerAfterResultNoReturn ==
    /\ pc = "post"
    /\ IF ResultCancelled(result) THEN Put(<<CancelledMsg>>) ELSE NoPut
    /\ idx' = idx + 1
    /\ pc' = "check"
    /\ result' = NoResult
    /\ raised' = "none"
    /\ UNCHANGED <<worker, cancel_event, is_running, run_errors, run_cancelled,
                   start_btn, cancel_btn, status_var, failed_warning, urls, options,
                   completed, nprogress, handed, passed, handed_after_cancel, cancel_at, dl, handled, env_vars>>

\* Variant: the loop takes the same URL again.
NextIndexSame(i) == i

\* enumerate(urls, 1): the index of the next iteration
NextIndex(i) == i + 1

\* ... : put "cancelled"; return.  Otherwise the next iteration, where result is
\* assigned again before it is read (the old value is dead, and dropped here).
WorkerAfterResult ==
    /\ pc = "post"
    /\ IF ResultCancelled(result)
       THEN /\ Put(<<CancelledMsg>>)
            /\ pc' = "exit"
            /\ UNCHANGED <<idx, result, raised>>
       ELSE /\ idx' = NextIndex(idx)
            /\ pc' = "check"
            /\ result' = NoResult
            /\ raised' = "none"
            /\ NoPut
    /\ UNCHANGED <<worker, cancel_event, is_running, run_errors, run_cancelled,
                   start_btn, cancel_btn, status_var, failed_warning, urls, options,
                   completed, nprogress, handed, passed, handed_after_cancel, cancel_at, dl, handled, env_vars>>

\* _run_worker has returned: the thread ends and is_alive() turns false
WorkerExit ==
    /\ pc = "exit"
    /\ pc' = "idle"
    /\ worker' = "dead"
    /\ UNCHANGED <<cancel_event, queue, is_running, run_errors, run_cancelled,
                   start_btn, cancel_btn, status_var, failed_warning, urls, options,
                   idx, completed, result, nprogress, hist_vars, dl, sent, handled, env_vars>>

WorkerStep ==
    \/ WorkerInit
    \/ WorkerCheck
    \/ WorkerDone
    \/ WorkerAnnounce
    \/ WorkerCall
    \/ ProgressCallback
    \/ DownloadReturn
    \/ DownloadRaise
    \/ WorkerResult
    \/ WorkerAfterResult
    \/ WorkerExit

Next ==
    \/ \E n \in 0..MaxUrls, f \in FormValues : Start(n, f)
    \/ Cancel
    \/ PollQueue
    \/ WorkerStep

Spec == Init /\ [][Next]_vars

\* The worker is a thread of its own: while it has a step to take, it takes one
\* (the scheduler runs it, and a download_audio call in flight returns or raises).
FairSpec == Spec /\ WF_vars(WorkerStep)

\* _poll_queue reschedules itself in its finally clause (root.after(100, ...)), so
\* the queue is polled again and again for as long as the application runs.
\* The batches here are all started with 2 in the "Concurrent downloads" field.
PollFairNext ==
    \/ \E n \in 0..MaxUrls : Start(n, FormInt(TRUE, 2))
    \/ Cancel
    \/ PollQueue
    \/ WorkerStep

PollFairSpec ==
    Init /\ [][PollFairNext]_vars /\ WF_vars(WorkerStep) /\ WF_vars(PollQueue)

(* ------------------------------ the preview beside the batch (PreviewSpec) *)
MaxPreviews == 2
PreviewUrls == 1

\* Variant: _preview leaves the Start button as it is.
PreviewButtonsStartLeft(s) ==
    [s EXCEPT !.preview_btn = "disabled", !.stop_preview_btn = "normal"]

\* self.preview_btn.configure(state="disabled")
\* self.start_btn.configure(state="disabled")
\* self.stop_preview_btn.configure(state="normal")
PreviewButtons(s) ==
    [s EXCEPT !.preview_btn = "disabled", !.start_btn = "disabled",
              !.stop_preview_btn = "normal"]

\* _preview, the command of the Preview button; _validate_inputs passes with
\* n >= 1 URLs. The thread it starts runs _preview_worker from its beginning.
Preview(n) ==
    /\ preview.preview_btn = "normal"
    /\ preview.previews < MaxPreviews
    /\ IF is_running \/ preview.is_previewing \/ n = 0
       THEN UNCHANGED <<start_btn, status_var, preview>>
       ELSE LET s == PreviewButtons([UiState EXCEPT !.is_previewing = TRUE])
            IN /\ start_btn' = s.start_btn
               /\ status_var' = "Fetching preview"
               /\ preview' = [PreviewAfter(s) EXCEPT !.preview_cancel_event = FALSE,
                                                     !.pc = "begin",
                                                     !.info = "none",
                                                     !.puts = <<>>,
                                                     !.in_flight = @ + 1,
                                                     !.previews = @ + 1]
    /\ UNCHANGED <<worker, cancel_event, queue, is_running, run_errors, run_cancelled,
                   cancel_btn, failed_warning, worker_vars, hist_vars, dl, sent,
                   handled, log_lines, produced, opt_vars, extractions, archive,
                   last_playlist_index, poll>>

\* _stop_preview, the command of the Stop Preview button
StopPreview ==
    /\ preview.stop_preview_btn = "normal"
    /\ IF preview.is_previewing
       THEN /\ status_var' = "Stopping preview"
            /\ preview' = [preview EXCEPT !.preview_cancel_event = TRUE,
                                          !.stop_preview_btn = "disabled"]
       ELSE UNCHANGED <<status_var, preview>>
    /\ UNCHANGED <<worker, cancel_event, queue, is_running, run_errors, run_cancelled,
                   start_btn, cancel_btn, failed_warning, worker_vars, hist_vars, dl,
                   sent, handled, log_lines, produced, opt_vars, extractions, archive,
                   last_playlist_index, poll>>

\* self._queue.put(m) for each m of msgs, by the preview thread; nothing else of
\* the application changes in a step of that thread
PreviewPut(msgs) ==
    /\ \A j \in 1..Len(msgs) : ~PutWaits(Len(queue) + j - 1)
    /\ queue' = queue \o msgs
    /\ sent' = sent \o msgs
    /\ UNCHANGED <<worker, cancel_event, is_running, run_errors, run_cancelled,
                   start_btn, cancel_btn, status_var, failed_warning, worker_vars,
                   hist_vars, dl, handled, log_lines, produced, opt_vars, extractions,
                   archive,
                   last_playlist_index, poll>>

\* a step of the preview thread: it puts msgs and is then as p says
PreviewThread(msgs, p) ==
    /\ PreviewPut(msgs)
    /\ preview' = [p EXCEPT !.puts = @ \o [k \in 1..Len(msgs) |-> msgs[k].type]]

PreviewStatus(text) == [type |-> "status", text |-> text]
PreviewCancelledLog == LogMsg("Preview cancelled by user", 0)

\* the first two puts of _preview_worker
PreviewWorkerBegin ==
    /\ preview.pc = "begin"
    /\ PreviewThread(<<LogMsg("Fetching preview", 0), PreviewStatus("Connecting")>>,
                     [preview EXCEPT !.pc = "check"])

\* if self._preview_cancel_event.is_set(): before the fetch, in _preview_worker and
\* again at the head of _fetch_preview_with_progress (which then returns None)
PreviewWorkerCheck ==
    /\ preview.pc \in {"check", "fetch"}
    /\ IF preview.pc = "check"
       THEN IF preview.preview_cancel_event
            THEN PreviewThread(<<PreviewCancelledLog>>, [preview EXCEPT !.pc = "finally"])
            ELSE PreviewThread(<<>>, [preview EXCEPT !.pc = "fetch"])
       ELSE IF preview.preview_cancel_event
            THEN PreviewThread(<<>>, [preview EXCEPT !.pc = "fetched", !.info = "none"])
            ELSE PreviewThread(<<LogMsg("Extracting metadata", 0),
                                 PreviewStatus("Extracting metadata")>>,
                               [preview EXCEPT !.pc = "extract"])

\* What downloader.dry_run_info does: returns the info, returns None, or raises.
PreviewOutcomes == {"info", "none", "raise"}

\* info = downloader.dry_run_info(...) and the rest of _fetch_preview_with_progress
PreviewWorkerExtract(o) ==
    /\ preview.pc = "extract"
    /\ LET p == [preview EXCEPT !.pc = "fetched",
                       !.info = IF o # "raise" /\ preview.preview_cancel_event
                                THEN "none" ELSE o]
       IN CASE o = "raise" ->
                 PreviewThread(<<LogMsg("Error during preview fetch", 0)>>, p)
            [] o = "info" /\ ~preview.preview_cancel_event ->
                 PreviewThread(<<LogMsg("Found video", 0), PreviewStatus("Preview ready"),
                                 LogMsg("Format", 0)>>, p)
            [] OTHER -> PreviewThread(<<>>, p)

\* _preview_worker after the fetch: if self._preview_cancel_event.is_set() at 865,
\* or at the head of the except clause the exception of the fetch has reached
PreviewWorkerFetched ==
    /\ preview.pc = "fetched"
    /\ IF preview.preview_cancel_event
       THEN PreviewThread(<<PreviewCancelledLog>>, [preview EXCEPT !.pc = "finally"])
       ELSE PreviewThread(<<>>, [preview EXCEPT !.pc = "deliver"])

\* the statements after that test: for no info the test is made once more (870)
\* before preview_error is put; preview_ready is put at 887 with no further test
PreviewWorkerDeliver ==
    /\ preview.pc = "deliver"
    /\ LET p == [preview EXCEPT !.pc = "finally"]
       IN CASE preview.info = "info" ->
                 PreviewThread(<<[type |-> "preview_ready"]>>, p)
            [] preview.info = "none" /\ preview.preview_cancel_event ->
                 PreviewThread(<<PreviewCancelledLog>>, p)
            [] OTHER ->
                 PreviewThread(<<[type |-> "preview_error"],
                                 LogMsg("Preview error", 0)>>, p)

\* finally: self._queue.put({"type": "preview_complete"}), and the thread ends
PreviewWorkerFinally ==
    /\ preview.pc = "finally"
    /\ PreviewThread(<<[type |-> "preview_complete"]>>,
                     [preview EXCEPT !.pc = "idle", !.in_flight = @ - 1])

PreviewWorkerStep ==
    \/ PreviewWorkerBegin
    \/ PreviewWorkerCheck
    \/ \E o \in PreviewOutcomes : PreviewWorkerExtract(o)
    \/ PreviewWorkerFetched
    \/ PreviewWorkerDeliver
    \/ PreviewWorkerFinally

\* Start, Preview, Stop Preview and Cancel pressed in any order, between the polls
\* and the steps of the two threads; batches of at most PreviewUrls URLs.
PreviewNext ==
    \/ \E n \in 0..PreviewUrls : Start(n, FormInt(TRUE, 2))
    \/ \E n \in 0..PreviewUrls : Preview(n)
    \/ StopPreview
    \/ Cancel
    \/ PollQueue
    \/ WorkerStep
    \/ PreviewWorkerStep

PreviewSpec == Init /\ [][PreviewNext]_vars

\* The preview thread is scheduled (and downloader.dry_run_info returns or raises),
\* and _poll_queue reschedules itself in its finally clause.
\* The Cancel button of the batch is left out here: _cancel touches the batch only.
PreviewFairNext ==
    \/ \E n \in 0..PreviewUrls : Start(n, FormInt(TRUE, 2))
    \/ \E n \in 0..PreviewUrls : Preview(n)
    \/ StopPreview
    \/ PollQueue
    \/ WorkerStep
    \/ PreviewWorkerStep

PreviewFairSpec ==
    Init /\ [][PreviewFairNext]_vars /\ WF_vars(PreviewWorkerStep) /\ WF_vars(PollQueue)

(* ------------------------- batches of playlists, one after the other (RerunSpec) *)
MaxPlaylist == 2

\* the payload yt-dlp reports while it downloads entry k of a playlist
PlaylistProgressMsg(i, k) ==
    [type |-> "progress", url |-> i, status |-> "downloading",
     playlist_index |-> k, playlist_count |-> MaxPlaylist]

\* progress_callback(payload) with the payload of a playlist entry
PlaylistProgress(k) ==
    /\ pc = "download"
    /\ nprogress < MaxProgress
    /\ nprogress' = nprogress + 1
    /\ Put(<<PlaylistProgressMsg(idx, k)>>)
    /\ UNCHANGED <<worker, cancel_event, is_running, run_errors, run_cancelled,
                   start_btn, cancel_btn, status_var, failed_warning, pc, urls, options,
                   idx, completed, result, handed, passed, handed_after_cancel, raised,
                   cancel_at, dl, handled, env_vars>>

\* Batches of at most PreviewUrls playlist URLs, started, cancelled and started again.
RerunNext ==
    \/ \E n \in 0..PreviewUrls : Start(n, FormInt(TRUE, 2))
    \/ Cancel
    \/ PollQueue
    \/ WorkerStep
    \/ \E k \in 1..MaxPlaylist : PlaylistProgress(k)

RerunSpec == Init /\ [][RerunNext]_vars

(* ------------------------- the form edited while a batch runs (EditSpec) *)
\* the user changes the "Concurrent downloads" field; nothing but the field changes
EditForm(v) ==
    /\ v # form.concurrent
    /\ form' = [form EXCEPT !.concurrent = v]
    /\ UNCHANGED <<gui_vars, worker_vars, hist_vars, dl, sent, handled, log_lines,
                   produced, collected, call, extractions, archive, preview,
                   last_playlist_index, poll>>

\* _start reads the form as it is when the button is pressed
EditNext ==
    \/ \E v \in FormValues : EditForm(v)
    \/ \E n \in 0..MaxUrls : Start(n, form.concurrent)
    \/ PollQueue
    \/ WorkerStep

EditSpec == Init /\ [][EditNext]_vars


(* ====================================================================== *)
(* The log widget                                                          *)
(* ====================================================================== *)
(* log_text is followed by the number of lines it holds.  Every insert     *)
(* ends with a newline, so with n lines held the index "end-1c" is on line *)
(* n + 1.                                                                  *)
\* _trim_log_if_needed: max_lines and trim_lines
max_lines == 5000
trim_lines == 500

\* _trim_log_if_needed(): n lines held before, the lines held after
_trim_log_if_needed(n) == IF n + 1 > max_lines THEN n - trim_lines ELSE n

\* _append_log(line), line being a text of k lines
_append_log(n, k) == _trim_log_if_needed(n + k)

\* _flush_log_buffer(), _pending_logs holding pending lines in all (0: it is empty)
_flush_log_buffer(n, pending) ==
    IF pending = 0 THEN n ELSE _trim_log_if_needed(n + pending)

(* ------------------------------------- the order of a request's events *)
\* The request a message belongs to: the index of its URL, 0 for a message of
\* the batch as a whole.
RequestOf(m) ==
    CASE m.type = "status" -> m.idx
      [] m.type = "log" -> m.url
      [] m.type = "progress" -> m.url
      [] m.type = "result" -> m.result.url
      [] OTHER -> 0

\* The place of a message among those of its request: the "Processing" status,
\* the "-> url" log, then progress events and error logs, then the result.
Stage(m) ==
    CASE m.type = "status" -> 1
      [] m.type = "log" /\ m.text = "url" -> 2
      [] m.type = "result" -> 4
      [] OTHER -> 3

\* In the history h the messages of each request are in the order of their
\* stages, its status, "-> url" log and result occur once, and its progress
\* events and its result come after its status and its "-> url" log.
RequestsOrdered(h) ==
    \A b \in 1..Len(h) : RequestOf(h[b]) # 0 =>
        /\ \A a \in 1..(b - 1) : RequestOf(h[a]) = RequestOf(h[b]) =>
              /\ Stage(h[a]) <= Stage(h[b])
              /\ Stage(h[a]) = Stage(h[b]) => Stage(h[b]) = 3
        /\ Stage(h[b]) > 2 =>
              \A s \in 1..2 : \E a \in 1..(b - 1) :
                  RequestOf(h[a]) = RequestOf(h[b]) /\ Stage(h[a]) = s

\* The results in h are in the order in which the requests completed: the k-th
\* of them carries completed = k, and a request that was started later has its
\* result later.
CompletionOrder(h) ==
    LET rs == SelectSeq(h, LAMBDA m : m.type = "result")
    IN \A k \in 1..Len(rs) :
          /\ rs[k].completed = k
          /\ \A j \in 1..(k - 1) : rs[j].result.url < rs[k].result.url

TextLines(text) == IF text = "Traceback" THEN MaxTextLines ELSE 1

\* a progress message whose payload makes _handle_progress raise
BadProgressMsg == [type |-> "progress", url |-> 0, payload |-> "malformed"]
\* Variant: every handler raises.
RaisesAlways(m) == TRUE

Raises(m) == m.type = "progress" /\ "payload" \in DOMAIN m

\* the messages _preview_worker puts for a preview that fails with an exception
PreviewMsgs ==
    <<LogMsg("preview", 0), [type |-> "status", text |-> "Connecting"],
      [type |-> "preview_error"], LogMsg("Exception", 0), LogMsg("Traceback", 0),
      [type |-> "preview_complete"]>>

\* what one iteration of the worker loop puts when download_audio raises Exception
RaisingIteration(i, n) ==
    Announce(i, n) \o ExceptionLogs("Exception", i)
    \o ResultPut(DownloadResult(i, FALSE, ExceptionCode("Exception"), "error"), i, n)

\* what one iteration puts when download_audio succeeds after one progress callback
SucceedingIteration(i, n) ==
    Announce(i, n) \o <<ProgressMsg(i)>>
    \o ResultPut(DownloadResult(i, TRUE, "NONE", "none"), i, n)

RECURSIVE Iterations(_, _, _)
\* the iterations i..n of a batch of n URLs, all raising or all succeeding
Iterations(i, n, raising) ==
    IF i > n THEN <<>>
    ELSE (IF raising THEN RaisingIteration(i, n) ELSE SucceedingIteration(i, n))
         \o Iterations(i + 1, n, raising)

\* What the producers put between two polls.
Bursts ==
    {[name |-> "progress", msgs |-> <<ProgressMsg(1)>>],
     [name |-> "bad progress", msgs |-> <<BadProgressMsg>>],
     [name |-> "done", msgs |-> <<DoneMsg>>],
     [name |-> "cancelled", msgs |-> <<CancelledMsg>>],
     [name |-> "preview", msgs |-> PreviewMsgs]}
    \cup {[name |-> "raising", msgs |-> Iterations(1, n, TRUE)] : n \in {1, MaxRun}}
    \cup {[name |-> "succeeding", msgs |-> Iterations(1, n, FALSE)] : n \in {1, MaxRun}}

\* Result and Finished events
Important(m) == m.type \in {"result", "done", "cancelled"}

\* a producer thread puts the messages of b, one after the other
Produce(b) ==
    /\ Len(produced) < MaxBursts
    /\ Put(b.msgs)
    /\ produced' = Append(produced, b.name)
    /\ UNCHANGED <<worker, cancel_event, is_running, run_errors, run_cancelled,
                   start_btn, cancel_btn, status_var, failed_warning, worker_vars,
                   handed, passed, handed_after_cancel, raised, cancel_at, dl, log_lines,
                   handled, opt_vars, extractions, archive, preview,
                   last_playlist_index, poll>>

\* What _poll_queue works on: the fields of App its handlers write (ui), the lines
\* in log_text, the lines in _pending_logs, and the history of handler calls.
Consumer ==
    [ui |-> UiState, lines |-> log_lines, pending |-> poll.pending_logs,
     handled |-> handled]

\* the _append_log calls of a handler: k texts of one line each
RECURSIVE Appended(_, _)
Appended(n, k) == IF k = 0 THEN n ELSE Appended(_append_log(n, 1), k - 1)

\* _handle_queue_message(msg), with what it writes to the log
HandleMessageAndLog(c, m) ==
    IF Raises(m)
    THEN \* except Exception: two _append_log calls, the second with the traceback
         [c EXCEPT !.lines = _append_log(_append_log(@, 1), MaxTextLines)]
    ELSE LET c1 == [c EXCEPT !.ui = HandleQueueMessage(@, m),
                             !.handled = Append(@, m)]
         IN CASE m.type = "log" ->
                   [c1 EXCEPT !.pending = @ + TextLines(m.text)]
              [] m.type = "result" ->
                   [c1 EXCEPT !.lines = Appended(@, 2)]
              [] m.type \in {"cancelled", "done", "error"} ->
                   [c1 EXCEPT !.lines = Appended(@, 1)]
              [] OTHER -> c1

\* the while loop of _poll_queue over the first k queued messages
RECURSIVE HandleAll(_, _, _)
HandleAll(c, msgs, k) ==
    IF k = 0 \/ msgs = <<>> THEN c
    ELSE IF k = 1 \/ Len(msgs) = 1 THEN HandleMessageAndLog(c, Head(msgs))
    ELSE LET n == Min(k, Len(msgs))
             half == n \div 2
             after == HandleAll(c, SubSeq(msgs, 1, half), half)
         IN \* the messages are handled in order, the first of them to the end
            \* before the next is taken
            IF after.pending >= c.pending
            THEN HandleAll(after, SubSeq(msgs, half + 1, n), n - half)
            ELSE after

\* self._pending_logs.clear() in _flush_log_buffer; an empty buffer stays empty
PendingFlushed(pending) == 0

\* Variant: the finally clause schedules nothing.
NotRescheduled(after) == after

\* self.root.after(100, self._poll_queue) in the finally clause
Rescheduled(after) == after + 1

\* _poll_queue, the log and the history included: a callback Tk runs when its time
\* has come. With an empty queue get_nowait raises queue.Empty at once.
PollQueueAndLog ==
    /\ poll.after > 0
    /\ LET k == PollCount(queue)
           c == HandleAll(Consumer, queue, k)
       IN /\ queue' = SubSeq(queue, k + 1, Len(queue))
          /\ is_running' = c.ui.is_running
          /\ run_errors' = c.ui.run_errors
          /\ run_cancelled' = c.ui.run_cancelled
          /\ start_btn' = c.ui.start_btn
          /\ cancel_btn' = c.ui.cancel_btn
          /\ status_var' = c.ui.status_var
          /\ failed_warning' = c.ui.failed_warning
          /\ log_lines' = _flush_log_buffer(c.lines, c.pending)
          /\ handled' = c.handled
          /\ preview' = PreviewAfter(c.ui)
          /\ last_playlist_index' = c.ui.last_playlist_index
          /\ poll' = [pending_logs |-> PendingFlushed(c.pending),
                      after |-> Rescheduled(poll.after - 1)]
    /\ UNCHANGED <<worker, cancel_event, worker_vars, hist_vars, dl, sent, produced,
                   opt_vars, extractions, archive>>

\* The log holds nothing yet, or is two tracebacks short of the cap.
StartLines == {0, max_lines - 2 * MaxTextLines}

ConsumerInit ==
    /\ GuiInit /\ dl = DlIdle /\ OptIdle /\ extractions = 0 /\ archive = {}
    /\ log_lines \in StartLines
    /\ sent = <<>> /\ handled = <<>> /\ produced = <<>>

ConsumerNext ==
    \/ \E b \in Bursts : Produce(b)
    \/ PollQueueAndLog

ConsumerSpec == ConsumerInit /\ [][ConsumerNext]_vars

\* self.root.after(100, self._poll_queue) in the finally clause: the poll runs
\* again and again. This is WF_vars(PollQueueAndLog), written out: a poll changes
\* the state exactly when the queue holds a message.
ConsumerFairSpec ==
    ConsumerSpec /\ ([]<>(queue = <<>>) \/ []<><<PollQueueAndLog>>_vars)

(* ------------------------------------------- properties of ConsumerSpec *)

\* C11: a producer's put never waits for the consumer: whatever the queue already
\* holds and however rarely it is polled, every burst of messages a producer has
\* still to put can be put at once.
C11_ProducersNeverBlock ==
    Len(produced) < MaxBursts => \A b \in Bursts : ENABLED Produce(b)

\* more than two polls' worth of messages queued, none of them polled yet
C11_Witness == Len(queue) > 2 * max_messages /\ handled = <<>>

C12_Removed == Len(queue) - Len(queue')

C12_OnePoll ==
    /\ Len(queue') < Len(queue) =>
          /\ C12_Removed <= max_messages
          /\ queue' = SubSeq(queue, C12_Removed + 1, Len(queue))
          /\ handled' = handled \o SelectSeq(SubSeq(queue, 1, C12_Removed),
                                              LAMBDA m : ~Raises(m))
    /\ (queue = <<>> /\ queue' = <<>>) => UNCHANGED vars

\* C12: one poll takes at most max_messages messages off the front of the queue,
\* hands them on, and leaves the others queued in their order; on an empty queue
\* it changes nothing. (get_nowait never waits.)
C12_BoundedBatches == [][C12_OnePoll]_vars

\* two runs of raising iterations were queued and one poll has been made: it
\* handled max_messages messages and left as many for the next poll
C12_Witness ==
    /\ produced = <<"raising", "raising">>
    /\ Len(handled) = max_messages
    /\ Len(queue) = max_messages

C13_InOrder ==
    SelectSeq(sent, Important) = SelectSeq(handled, Important) \o SelectSeq(queue, Important)

\* C13: the 'result', 'done' and 'cancelled' messages handled so far, followed by
\* those still queued, are exactly the ones put, in the order they were put, and
\* the consumer catches up again and again (the producers put finitely many
\* messages here): each one put is eventually handled, once, whatever handler
\* raised before it and whatever was trimmed from the log.
C13_NeverDropped ==
    []C13_InOrder /\ []<>(SelectSeq(handled, Important) = SelectSeq(sent, Important))

\* a malformed progress message made its handler raise, the log was trimmed, and
\* the results and the 'done' put after that have all been handled
C13_Witness ==
    /\ produced = <<"bad progress", "raising", "done">>
    /\ queue = <<>> /\ Len(SelectSeq(handled, Important)) = MaxRun + 1
    /\ log_lines > max_lines - 2 * trim_lines
    /\ log_lines < max_lines - 2 * MaxTextLines

\* C14: the log never holds more than max_lines lines once _poll_queue has
\* appended and flushed.
C14_LogCapped == log_lines <= max_lines

(* ====================================================================== *)
(* _collect_options as a function of the form (specification OptSpec)      *)
(* ====================================================================== *)
\* how far beyond the accepted ranges the values typed into the form go
FormSpan == 2

\* _collect_options: the cap on retries, and the value used when the field is unreadable
MaxRetries == 10
DefaultRetries == 3

\* The values the two spin boxes can hold: any integer, or a text int() rejects.
OptFormValues ==
    {FormInt(FALSE, 0)} \cup {FormInt(TRUE, v) : v \in (0 - FormSpan)..(MaxRetries + FormSpan)}

\* Variant: the cap on retries is missing.
CollectRetriesNoCap(f) ==
    IF ~f.ok THEN DefaultRetries
    ELSE IF f.val < 0 THEN 0 ELSE f.val

\* retries = max(0, int(self.retries_var.get())), capped at 10; 3 when unreadable
CollectRetries(f) ==
    IF ~f.ok THEN DefaultRetries
    ELSE LET retries == IF f.val < 0 THEN 0 ELSE f.val
         IN IF retries > MaxRetries THEN MaxRetries ELSE retries

\* The warnings _collect_options appends to the log (one line each).
CollectWarnings(fr, fc) ==
    (IF ~fr.ok \/ (IF fr.val < 0 THEN 0 ELSE fr.val) > MaxRetries THEN 1 ELSE 0)
    + (IF ~fc.ok \/ fc.val < MinConcurrent \/ fc.val > MaxConcurrent THEN 1 ELSE 0)

OptInit ==
    /\ GuiInit /\ dl = DlIdle /\ ConsIdle /\ extractions = 0 /\ archive = {}
    /\ form \in [concurrent : OptFormValues, retries : OptFormValues]
    /\ collected = NotCollected
    /\ call = NoCall

\* options = self._collect_options()
OptCollect ==
    /\ collected = NotCollected
    /\ collected' = [done |-> TRUE,
                     retries |-> CollectRetries(form.retries),
                     concurrent_downloads |->
                         CollectOptions(form.concurrent).concurrent_downloads]
    /\ log_lines' = Appended(log_lines, CollectWarnings(form.retries, form.concurrent))
    /\ UNCHANGED <<gui_vars, worker_vars, hist_vars, dl, form, call, sent, handled,
                   produced, extractions, archive, preview,
                   last_playlist_index, poll>>

OptNext == OptCollect

OptSpec == OptInit /\ [][OptNext]_vars

(* ====================================================================== *)
(* src/plugins/youtube.py: YouTubeConverter.download                       *)
(* ====================================================================== *)
(* An error text is a sequence of tokens: words and phrases of the text,   *)
(* and ANSI colour sequences (ESC [ digits ; m) as tokens of their own.    *)
(* "x in msg" of the code is the occurrence of x's tokens, adjacent and in *)
(* order.                                                                  *)
AnsiRed == "ESC[0;31m"
AnsiReset == "ESC[0m"
AnsiTokens == {AnsiRed, AnsiReset}

\* ANSI_ESCAPE.sub("", text or "")
RECURSIVE _strip_ansi(_)
_strip_ansi(text) ==
    IF text = <<>> THEN <<>>
    ELSE (IF Head(text) \in AnsiTokens THEN <<>> ELSE <<Head(text)>>)
         \o _strip_ansi(Tail(text))

\* str.lower() on one token
LowerToken(t) ==
    CASE t = "HTTP Error " -> "http error "
      [] t = "Forbidden"   -> "forbidden"
      [] t = "ERROR: "     -> "error: "
      [] t = "Not Found"   -> "not found"
      [] t = "Network is unreachable" -> "network is unreachable"
      [] t = "Download cancelled by user" -> "download cancelled by user"
      [] OTHER -> t

Lower(msg) == [k \in DOMAIN msg |-> LowerToken(msg[k])]

\* pat in msg
Contains(msg, pat) ==
    \E k \in 1..(Len(msg) - Len(pat) + 1) : SubSeq(msg, k, k + Len(pat) - 1) = pat

\* _is_forbidden_error(message)
_is_forbidden_error(message) ==
    LET msg == Lower(message)
    IN \/ Contains(msg, <<"http error ", "403">>)
       \/ Contains(msg, <<"403", ": ", "forbidden">>)
       \/ Contains(msg, <<"unable to download video data">>)
       \/ (Contains(msg, <<"http error ">>) /\ Contains(msg, <<"forbidden">>))

\* The texts yt-dlp fails with here: four of the HTTP 403 kind (one coloured, one
\* with the colour inside the phrase) and two of other kinds.
Err403Coloured == <<AnsiRed, "ERROR: ", AnsiReset, "HTTP Error ", "403", ": ", "Forbidden">>
Err403ColourInside == <<"ERROR: ", "HTTP Error ", AnsiRed, "403", AnsiReset>>
ErrUnableToDownload == <<"ERROR: ", "unable to download video data">>
ErrForbiddenHttp == <<"HTTP Error ", "(", "403", ")", " ", "Forbidden">>
Err404 == <<AnsiRed, "ERROR: ", AnsiReset, "HTTP Error ", "404", ": ", "Not Found">>
ErrNetwork == <<"ERROR: ", "Network is unreachable">>
ForbiddenTexts == {Err403Coloured, Err403ColourInside, ErrUnableToDownload, ErrForbiddenHttp}
OtherTexts == {Err404, ErrNetwork}
RawErrors == ForbiddenTexts \cup OtherTexts

\* DownloadError("Download cancelled by user"), raised by ProgressHook
CancelledText == <<"Download cancelled by user">>

SkippedText == <<"Skipped: no new files downloaded (already exists or in archive).">>
FailedPrefix == <<"YouTube download failed: ">>
Hint == <<" (", "Hint: YouTube blocked the request (HTTP 403). Try providing a cookies file or updating yt-dlp.", ")">>

NoReturn == [returned |-> FALSE]

\* Variant: the triple of a failure carries no message.
ReturnWithoutMessage(success, path, error) ==
    [returned |-> TRUE, success |-> success, path |-> path, error |-> <<>>]

Return(success, path, error) ==
    [returned |-> TRUE, success |-> success, path |-> path, error |-> error]

\* One call of download: the state before the first statement.
DlStart(ce) ==
    [pc |-> "setup",
     cancel_event |-> ce,        \* kwargs.get("cancel_event"): "none", "clear" or "set"
     attempts |-> <<>>,          \* the option sets YoutubeDL was run with, in order
     errors |-> <<>>,            \* the raw text each failed attempt raised
     hooks |-> 0,                \* ProgressHook calls made by the attempt in progress
     any_downloaded |-> FALSE,
     downloaded_file |-> "None",
     ret |-> NoReturn,
     url |-> 0,                  \* the URL (1..MaxUrls once called)
     archive_file |-> FALSE,     \* kwargs.get("archive_file") is given
     download_archive |-> FALSE, \* ydl_opts has "download_archive"
     known |-> FALSE,            \* the archive in use held the URL when download was called
     did_download |-> FALSE,     \* yt-dlp has been downloading (it has called the hook)
     finished_now |-> FALSE]     \* history: the attempt in progress has signalled
                                 \* a finished file

\* Variant: the archive file is not handed on to yt-dlp.
ArchiveOptionDropped(archive_file) == FALSE

\* if kwargs.get("archive_file"): ydl_opts["download_archive"] = kwargs["archive_file"]
ArchiveOption(archive_file) == archive_file

\* yt-dlp finds the URL recorded in its download archive: it downloads nothing,
\* calls no progress hook, and download([url]) returns.
ArchiveHit(d) == d.download_archive /\ d.url \in archive

\* download(url, output_path, ...) is called
DlCall(ce) ==
    /\ dl.pc \in {"idle", "returned"}
    /\ \E u \in 1..MaxUrls, a \in BOOLEAN :
          dl' = [DlStart(ce) EXCEPT !.url = u,
                                    !.archive_file = a,
                                    !.download_archive = ArchiveOption(a),
                                    !.known = ArchiveOption(a) /\ u \in archive]
    /\ UNCHANGED <<caller_vars, archive>>

\* lines 143-223: mkdir and the option dict; an exception there goes to the outer except
DlSetup ==
    /\ dl.pc = "setup"
    /\ \/ dl' = [dl EXCEPT !.pc = "attempt", !.attempts = <<"original">>]
       \/ \E e \in OtherTexts :
            dl' = [dl EXCEPT !.pc = "returned",
                             !.ret = Return(FALSE, "None", FailedPrefix \o _strip_ansi(e))]
    /\ UNCHANGED <<caller_vars, archive>>

\* the caller sets the cancel event while download runs
DlCancelSet ==
    /\ dl.pc \in {"setup", "attempt"}
    /\ dl.cancel_event = "clear"
    /\ dl' = [dl EXCEPT !.cancel_event = "set"]
    /\ UNCHANGED <<caller_vars, archive>>

\* Variant: every failure of the first attempt is retried with the fallback options.
FallbackAlways(error_message) == TRUE

\* Variant: no failure of the first attempt is retried.
FallbackNever(error_message) == FALSE

\* if _is_forbidden_error(error_message): at line 237
FallbackWanted(error_message) == _is_forbidden_error(error_message)

\* Variant: every failure of the fallback attempt gets the hint.
HintAlways(fallback_message) == TRUE

\* if _is_forbidden_error(fallback_message): at line 263
HintWanted(fallback_message) == _is_forbidden_error(fallback_message)

\* except Exception as e (first attempt) / as fallback_error (fallback attempt)
AttemptFailed(d, raw) ==
    LET error_message == _strip_ansi(raw)
        d1 == [d EXCEPT !.errors = Append(@, raw), !.hooks = 0, !.finished_now = FALSE]
    IN IF Len(d.attempts) = 1
       THEN IF FallbackWanted(error_message)
            THEN [d1 EXCEPT !.attempts = Append(@, "fallback")]
            ELSE [d1 EXCEPT !.pc = "returned",
                            !.ret = Return(FALSE, "None", FailedPrefix \o error_message)]
       ELSE [d1 EXCEPT !.pc = "returned",
                       !.ret = Return(FALSE, "None",
                                  FailedPrefix \o error_message
                                  \o (IF HintWanted(error_message)
                                      THEN Hint ELSE <<>>))]

\* Variant: the hook does not look at the cancel event.
HookSeesCancelNever(d) == FALSE

\* if cancel_event and cancel_event.is_set(): the first statement of the hook
HookSeesCancel(d) == d.cancel_event = "set"

\* ProgressHook.__call__(d), called by yt-dlp during an attempt
DlHook(status) ==
    /\ dl.pc = "attempt"
    /\ dl.hooks < MaxHooks
    /\ ~ArchiveHit(dl)
    /\ LET d == [dl EXCEPT !.did_download = TRUE]
       IN IF HookSeesCancel(d)
          THEN dl' = AttemptFailed(d, CancelledText)
          ELSE IF status = "finished"
          THEN dl' = [d EXCEPT !.hooks = @ + 1, !.any_downloaded = TRUE,
                               !.downloaded_file = "file", !.finished_now = TRUE]
          ELSE dl' = [d EXCEPT !.hooks = @ + 1]
    /\ UNCHANGED <<caller_vars, archive>>

\* ydl.download([url]) returns: lines 228-234 and 250-256
\* yt-dlp records a URL it has downloaded in the archive it was given.
DlAttemptCompletes ==
    /\ dl.pc = "attempt"
    /\ dl' = [dl EXCEPT !.pc = "returned",
                        !.ret = IF ~dl.any_downloaded
                                THEN Return(FALSE, "None", SkippedText)
                                ELSE Return(TRUE, dl.downloaded_file, <<>>)]
    /\ archive' = IF dl.download_archive /\ dl.any_downloaded
                  THEN archive \cup {dl.url} ELSE archive
    /\ UNCHANGED caller_vars

\* ydl.download([url]) raises with the text raw
DlAttemptRaises(raw) ==
    /\ dl.pc = "attempt"
    /\ ~ArchiveHit(dl)
    /\ dl' = AttemptFailed(dl, raw)
    /\ UNCHANGED <<caller_vars, archive>>

DlNext ==
    \/ \E ce \in {"none", "clear", "set"} : DlCall(ce)
    \/ DlSetup
    \/ DlCancelSet
    \/ \E status \in {"downloading", "finished"} : DlHook(status)
    \/ DlAttemptCompletes
    \/ \E raw \in RawErrors : DlAttemptRaises(raw)

DlSpec == Init /\ [][DlNext]_vars

(* ====================================================================== *)
(* A batch run through the plugin (specification RunSpec)                  *)
(* ====================================================================== *)
(* _run_worker with download_audio carried out by YouTubeConverter.download, *)
(* in the scenario of a batch of three URLs, started with concurrency 2,   *)
(* where yt-dlp refuses the first attempt for URL 2 with an HTTP 403 error *)
(* and every other attempt downloads the file.                             *)

\* _start with three URLs in the box and 2 in the concurrency field
RunStart ==
    /\ worker = "none"
    /\ Start(3, FormInt(TRUE, 2))

\* download_audio hands the URL and the cancel event to the plugin's download
RunCall ==
    /\ pc = "download"
    /\ dl.pc = "idle"
    /\ dl' = [DlStart(IF cancel_event THEN "set" ELSE "clear") EXCEPT !.url = idx]
    /\ UNCHANGED <<caller_vars, archive>>

\* the output directory is made and the options are built
RunSetup == DlSetup /\ dl'.pc = "attempt"

\* yt-dlp refuses the first attempt for URL 2
Refused(d) == d.url = 2 /\ Len(d.attempts) = 1

\* an attempt that is not refused downloads the file: the hook has seen "finished"
RunAttemptCompletes ==
    /\ dl.pc = "attempt"
    /\ ~Refused(dl) /\ dl.any_downloaded
    /\ DlAttemptCompletes

RunAttemptRaises ==
    /\ dl.pc = "attempt"
    /\ Refused(dl)
    /\ \E raw \in ForbiddenTexts : DlAttemptRaises(raw)

\* The DownloadResult download_audio makes of what the plugin returned.
ExecuteResult(i, ret) ==
    IF ret.success THEN DownloadResult(i, TRUE, "NONE", "none")
    ELSE IF ret.error = SkippedText THEN DownloadResult(i, FALSE, "NONE", "skipped")
    ELSE IF _is_forbidden_error(ret.error)
    THEN DownloadResult(i, FALSE, "FORBIDDEN_ERROR", "error")
    ELSE DownloadResult(i, FALSE, "UNKNOWN_ERROR", "error")

\* download_audio returns to the loop; the attempts of the call are counted
RunReturn ==
    /\ pc = "download"
    /\ dl.pc = "returned"
    /\ result' = ExecuteResult(idx, dl.ret)
    /\ extractions' = extractions + Len(dl.attempts)
    /\ dl' = DlIdle
    /\ pc' = "emit"
    /\ nprogress' = 0
    /\ UNCHANGED <<gui_vars, urls, options, idx, completed, hist_vars, sent, handled,
                   log_lines, produced, opt_vars, archive, preview,
                   last_playlist_index, poll>>

RunNext ==
    \/ RunStart
    \/ PollQueue
    \/ WorkerInit
    \/ WorkerCheck
    \/ WorkerDone
    \/ WorkerAnnounce
    \/ WorkerCall
    \/ ProgressCallback
    \/ WorkerResult
    \/ WorkerAfterResult
    \/ WorkerExit
    \/ RunCall
    \/ RunSetup
    \/ \E status \in {"downloading", "finished"} : DlHook(status)
    \/ RunAttemptCompletes
    \/ RunAttemptRaises
    \/ RunReturn

RunSpec == Init /\ [][RunNext]_vars

\* the result messages put so far
ResultsSent == SelectSeq(sent, LAMBDA m : m.type = "result")

\* C17: in this scenario four extraction attempts are made in all, never more,
\* and once the worker has returned all three requests have been reported as
\* succeeded, the run has ended with "done", and when the consumer has handled
\* everything no failure is listed and no warning shown.
C17_ThreeSucceedInFourAttempts ==
    /\ extractions <= 4
    /\ \A k \in 1..Len(ResultsSent) : ResultsSent[k].result.success
    /\ (worker = "alive" /\ pc = "exit") \/ worker = "dead" =>
          /\ extractions = 4
          /\ Len(ResultsSent) = 3
          /\ \A i \in 1..3 : ResultsSent[i].result = DownloadResult(i, TRUE, "NONE", "none")
          /\ terminals = <<"done">>
          /\ queue = <<>> => run_errors = <<>> /\ ~failed_warning /\ status_var = "Done"

\* the batch is over and everything it put has been handled
C17_Witness ==
    /\ worker = "dead" /\ queue = <<>> /\ extractions = 4
    /\ Len(ResultsSent) = 3 /\ status_var = "Done"

(* ====================================================================== *)
(* src/plugins/youtube.py: _strip_ansi, character by character (StripSpec)  *)
(* ====================================================================== *)
(* A text is a sequence of characters: ESC, "[", a digit, ";", "m", and a  *)
(* letter that is none of them. ANSI_ESCAPE is ESC "[" [0-9;]* "m".        *)
Chars == {"ESC", "[", "0", ";", "m", "a"}

\* [0-9;]* from position j on: the first position it does not take
RECURSIVE ParamsEnd(_, _)
ParamsEnd(text, j) ==
    IF j <= Len(text) /\ text[j] \in {"0", ";"} THEN ParamsEnd(text, j + 1) ELSE j

\* ANSI_ESCAPE.match at position i: the length of the match, 0 for none
ANSI_ESCAPE_match(text, i) ==
    IF i + 1 <= Len(text) /\ text[i] = "ESC" /\ text[i + 1] = "["
    THEN LET j == ParamsEnd(text, i + 2)
         IN IF j <= Len(text) /\ text[j] = "m" THEN j - i + 1 ELSE 0
    ELSE 0

\* ANSI_ESCAPE.sub("", text) from position i on: one pass from left to right over
\* the matches, which do not overlap
RECURSIVE ANSI_ESCAPE_sub(_, _)
ANSI_ESCAPE_sub(text, i) ==
    IF i > Len(text) THEN <<>>
    ELSE LET n == ANSI_ESCAPE_match(text, i)
         IN IF n > 0 THEN ANSI_ESCAPE_sub(text, i + n)
            ELSE <<text[i]>> \o ANSI_ESCAPE_sub(text, i + 1)

\* ANSI_ESCAPE.search(text) finds a colour sequence
HasAnsi(text) == \E i \in 1..Len(text) : ANSI_ESCAPE_match(text, i) > 0

\* the raw error texts
Texts == UNION {[1..n -> Chars] : n \in 0..MaxChars}

StripInit ==
    /\ GuiInit /\ dl = DlIdle /\ ConsIdle /\ extractions = 0 /\ archive = {}
    /\ form = FormIdle /\ collected = NotCollected
    /\ call \in {[fn |-> "_strip_ansi", done |-> FALSE, text |-> s, out |-> <<>>] :
                   s \in Texts}

\* error_message = _strip_ansi(str(e))
StripApply ==
    /\ call.fn = "_strip_ansi"
    /\ ~call.done
    /\ call' = [call EXCEPT !.done = TRUE, !.out = ANSI_ESCAPE_sub(call.text, 1)]
    /\ UNCHANGED <<gui_vars, worker_vars, hist_vars, dl, form, collected, sent, handled,
                   log_lines, produced, extractions, archive, preview,
                   last_playlist_index, poll>>

StripNext == StripApply

StripSpec == StripInit /\ [][StripNext]_vars

\* C26: what _strip_ansi returns holds no colour sequence, and stripping it again
\* changes nothing.
C26_StrippedIsClean ==
    (call.done /\ call.fn = "_strip_ansi") =>
        /\ ~HasAnsi(call.out)
        /\ ANSI_ESCAPE_sub(call.out, 1) = call.out

(* ====================================================================== *)
(* src/plugins/youtube.py: _merge_ydl_opts on its own (MergeSpec)          *)
(* ====================================================================== *)
(* A dict is a function from the keys it holds. A value is a record: a     *)
(* plain value (dict = FALSE, val) or a nested dict (dict = TRUE, items).  *)
TopKeys == {"format", "http_headers", "extractor_args"}
NestedKeys == {"http_headers", "extractor_args"}
ItemKeys == {"User-Agent", "Referer"}

NoItems == [j \in {} |-> "none"]
Plain(v) == [dict |-> FALSE, val |-> v, items |-> NoItems]
Group(items) == [dict |-> TRUE, val |-> "none", items |-> items]

\* the values a key can have in a dict all of whose plain values are v
ValuesOf(k, v) ==
    IF k \in NestedKeys
    THEN {Plain(v)} \cup {Group([j \in S |-> v]) : S \in SUBSET ItemKeys}
    ELSE {Plain(v)}

\* the dicts over TopKeys all of whose plain values are v
RECURSIVE DictsOver(_, _)
DictsOver(keys, v) ==
    IF keys = {} THEN {[k \in {} |-> Plain(v)]}
    ELSE LET k == CHOOSE x \in keys : TRUE
             rest == DictsOver(keys \ {k}, v)
         IN rest \cup {[x \in DOMAIN d \cup {k} |-> IF x = k THEN val ELSE d[x]] :
                          d \in rest, val \in ValuesOf(k, v)}

\* {**a, **b}
Unpacked(a, b) == [j \in DOMAIN a \cup DOMAIN b |-> IF j \in DOMAIN b THEN b[j] ELSE a[j]]

\* Variant: merged = {**base, **extra}, a group of extra replacing the group of base.
_merge_ydl_opts_flat(base, extra) == Unpacked(base, extra)

\* _merge_ydl_opts(base, extra)
_merge_ydl_opts(base, extra) ==
    [key \in DOMAIN base \cup DOMAIN extra |->
        IF key \notin DOMAIN extra THEN base[key]
        ELSE IF /\ key \in NestedKeys
                /\ extra[key].dict
                /\ key \in DOMAIN base
                /\ base[key].dict
        THEN Group(Unpacked(base[key].items, extra[key].items))
        ELSE extra[key]]

MergeInit ==
    /\ GuiInit /\ dl = DlIdle /\ ConsIdle /\ extractions = 0 /\ archive = {}
    /\ form = FormIdle /\ collected = NotCollected
    /\ call \in {[fn |-> "_merge_ydl_opts", done |-> FALSE, base |-> b, extra |-> e,
                  merged |-> b] :
                   b \in DictsOver(TopKeys, "original"), e \in DictsOver(TopKeys, "fallback")}

\* fallback_opts = _merge_ydl_opts(ydl_opts, {...})
MergeApply ==
    /\ call.fn = "_merge_ydl_opts"
    /\ ~call.done
    /\ call' = [call EXCEPT !.done = TRUE,
                            !.merged = _merge_ydl_opts(call.base, call.extra)]
    /\ UNCHANGED <<gui_vars, worker_vars, hist_vars, dl, form, collected, sent, handled,
                   log_lines, produced, extractions, archive, preview,
                   last_playlist_index, poll>>

MergeNext == MergeApply

MergeSpec == MergeInit /\ [][MergeNext]_vars

\* both hold a dict under the nested key
C27_BothGroups(key) ==
    /\ key \in NestedKeys \cap DOMAIN call.base \cap DOMAIN call.extra
    /\ call.base[key].dict /\ call.extra[key].dict

\* C27: the merged options hold every key of either side; an original option the
\* fallback profile does not name is kept as it was; where both hold a nested
\* group the merged group holds the entries of both, an original entry being
\* kept unless the fallback group sets its key, whose value is then the fallback's.
C27_MergedNotSubstituted ==
    (call.done /\ call.fn = "_merge_ydl_opts") =>
        /\ DOMAIN call.merged = DOMAIN call.base \cup DOMAIN call.extra
        /\ \A key \in DOMAIN call.base \ DOMAIN call.extra :
              call.merged[key] = call.base[key]
        /\ \A key \in DOMAIN call.extra :
              IF C27_BothGroups(key)
              THEN LET m == call.merged[key].items
                       o == call.base[key].items
                       f == call.extra[key].items
                   IN /\ call.merged[key].dict
                      /\ DOMAIN m = DOMAIN o \cup DOMAIN f
                      /\ \A j \in DOMAIN o \ DOMAIN f : m[j] = o[j]
                      /\ \A j \in DOMAIN f : m[j] = f[j]
              ELSE call.merged[key] = call.extra[key]

\* the original headers hold two entries, the fallback sets one of them: the
\* other is kept, and so is the original "format"
C27_Witness ==
    /\ call.done /\ call.fn = "_merge_ydl_opts"
    /\ DOMAIN call.base = {"format", "http_headers"}
    /\ call.base["http_headers"] = Group([j \in ItemKeys |-> "original"])
    /\ DOMAIN call.extra = NestedKeys
    /\ call.extra["http_headers"] = Group([j \in {"Referer"} |-> "fallback"])
    /\ call.merged["format"] = Plain("original")
    /\ call.merged["http_headers"].items["User-Agent"] = "original"
    /\ call.merged["http_headers"].items["Referer"] = "fallback"

(* ====================================================================== *)
(* Properties of the batch worker and its consumer (specification Spec)   *)
(* ====================================================================== *)

\* _run_worker has returned: it has put its last message.
WorkerReturned == pc = "exit" \/ (pc = "idle" /\ worker = "dead")

\* The state of request i in PENDING -> RUNNING -> terminal.
RequestState(i) ==
    IF i \notin handed THEN "PENDING"
    ELSE IF pc = "download" /\ idx = i THEN "RUNNING"
    ELSE "TERMINAL"

Running == {i \in 1..urls : RequestState(i) = "RUNNING"}

\* Cancellation was requested while the worker was still in its loop.
CancelledWhileRunning == cancel_at.pc \notin {"none", "exit"}

C2_NoCallAfterCancel == handed_after_cancel = {}

(* C2 amended: a URL whose loop-top check runs after the cancel event is   *)
(* set is never handed to download_audio; the only URL that can be handed  *)
(* to it after the event is set is the one whose check had already passed  *)
(* when _cancel ran (between line 1159 and the call at line 1167).         *)
C2_OnlyTheCheckedUrlAfterCancel ==
    handed_after_cancel \subseteq
        (IF cancel_at.pc \in {"status", "call"} THEN {cancel_at.idx} ELSE {})

\* Cancel arrived while URL 1 was downloading; URL 2 was never handed over.
C2_Witness ==
    /\ WorkerReturned /\ urls = 2 /\ cancel_at = [pc |-> "download", idx |-> 1]
    /\ handed = {1} /\ results_put[1] = 1 /\ result.error_code # "CANCELLED"

DoneDespiteCancel ==
    \/ cancel_at.pc = "check" /\ cancel_at.idx > urls
    \/ /\ cancel_at.pc \in {"status", "call", "download", "emit", "post"}
       /\ cancel_at.idx = urls
       /\ result.error_code # "CANCELLED"

\* State part of C3 amended.
C3_TerminalAfterCancel ==
    (CancelledWhileRunning /\ terminals # <<>>) =>
        terminals = <<IF DoneDespiteCancel THEN "done" ELSE "cancelled">>

C4_SingleTerminalEventLast ==
    /\ Len(terminals) <= 1
    /\ terminals # <<>> => /\ terminals[1] \in {"done", "cancelled"}
                           /\ last_put = terminals[1]
                           /\ WorkerReturned
    /\ WorkerReturned => Len(terminals) = 1

\* A batch of two that ended "done" after a progress message was put.
C4_Witness ==
    /\ WorkerReturned /\ urls = 2 /\ terminals = <<"done">>
    /\ \E k \in DOMAIN queue : queue[k].type = "progress"

\* The error code the claim gives for each exception class.
C6_CodeFor(e) ==
    CASE e = "PermissionError" -> "PERMISSION_ERROR"
      [] e = "ConnectionError" -> "NETWORK_ERROR"
      [] e = "TimeoutError"    -> "TIMEOUT_ERROR"
      [] e = "Exception"       -> "UNKNOWN_ERROR"

\* State part of C6.
C6_Converted ==
    /\ (raised # "none" /\ pc \in {"emit", "post"}) =>
          result = DownloadResult(idx, FALSE, C6_CodeFor(raised), "error")
    /\ (raised # "none" /\ pc = "post") =>
          /\ results_put[idx] = 1
          /\ last_put = "result"
    /\ (WorkerReturned /\ ~cancel_event) =>
          /\ terminals = <<"done">>
          /\ \A i \in 1..urls : results_put[i] = 1

\* Step part of C6: from the result of a URL that raised, the worker's next step
\* is the head of the loop for the next URL.
C6_GoesOn ==
    (raised # "none" /\ pc = "post") => (pc' = "post" \/ (pc' = "check" /\ idx' = idx + 1))

(* C6: an exception raised while one URL is processed becomes a            *)
(* DownloadResult with the matching error code, its result message is      *)
(* still put, and the loop goes on to the next URL: a batch in which       *)
(* cancellation was not requested ends "done" with a result for every URL. *)
C6_ExceptionBecomesResult == []C6_Converted /\ [][C6_GoesOn]_vars

\* URL 1 raised TimeoutError (its log line is still queued) and URL 2 has
\* been processed to its result all the same.
C6_Witness ==
    /\ urls = 2 /\ results_put[1] = 1 /\ results_put[2] = 1
    /\ \E k \in DOMAIN queue : queue[k] = LogMsg("TimeoutError", 1)
    /\ \E k \in DOMAIN queue :
          /\ queue[k].type = "result"
          /\ queue[k].result = DownloadResult(1, FALSE, "TIMEOUT_ERROR", "error")

(* C7: at no point are more requests of the batch RUNNING than the         *)
(* configured bound C = options["concurrent_downloads"], for every value   *)
(* of the form field; C itself lies in 1..5.                               *)
C7_ConcurrencyBound ==
    /\ Cardinality(Running) <= options.concurrent_downloads
    /\ options.concurrent_downloads \in MinConcurrent..MaxConcurrent

\* A request is RUNNING under the smallest bound.
C7_Witness == Running = {2} /\ options.concurrent_downloads = 1

\* A step that clears the cancel event.
C15_Cleared == cancel_event /\ ~cancel_event'

(* C15: the cancel event, once set, is never cleared while the batch       *)
(* worker is alive; the only step that clears it is _start, taken when no  *)
(* worker thread is alive, which starts the worker of the next run.        *)
C15_TokenMonotonicWithinRun ==
    [][C15_Cleared => (worker # "alive" /\ worker' = "alive" /\ pc' = "init")]_vars

\* The event is set, the worker has put its terminal message but its thread has
\* not ended yet, and the Start button is enabled again.
C15_Witness ==
    cancel_event /\ worker = "alive" /\ pc = "exit" /\ start_btn = "normal"

(* C8 as stated: a skipped request (success = false, "Skipped: ..." as its *)
(* message) is not entered in the failure list of the run and does not     *)
(* cause the "Some downloads failed" warning.                              *)
C8_SkippedIsNoFailure ==
    /\ \A k \in DOMAIN run_errors : run_errors[k].error # "skipped"
    /\ failed_warning => \E k \in DOMAIN run_errors : run_errors[k].error # "skipped"

(* C9 as stated: in a batch in which the user requested cancellation the   *)
(* "Some downloads failed" summary is never shown.  Stated for the batches *)
(* whose cancel request came while a request was in flight and whose       *)
(* failure list holds genuine failures only, so that neither a skipped nor *)
(* a CANCELLED entry (C8, C10) is what brings the summary up.              *)
C9_NoFailedSummaryAfterCancel ==
    (/\ cancel_at.pc = "download"
     /\ \A k \in DOMAIN run_errors : run_errors[k].error = "error")
        => ~failed_warning

(* C10 as stated: a request that ended with error code CANCELLED is not    *)
(* added to the failure list of the run.                                   *)
C10_CancelledIsNoFailure ==
    \A k \in DOMAIN run_errors : run_errors[k].error # "cancelled"


\* the (url, error) entries of the results in the history h that are no success
Failures(h) ==
    LET rs == SelectSeq(h, LAMBDA m : m.type = "result" /\ ~m.result.success)
    IN [k \in 1..Len(rs) |-> [url |-> rs[k].result.url,
                              error |-> rs[k].result.error_message]]

TerminalHandled == \E k \in 1..Len(handled) : handled[k].type \in TerminalTypes

C23_Requests ==
    /\ \A i \in 1..urls :
          /\ results_put[i] <= 1
          /\ results_put[i] = 1 => i \in handed
    /\ LET rs == SelectSeq(sent, LAMBDA m : m.type = "result")
       IN \A k \in 1..Len(rs) : rs[k].completed = k /\ rs[k].completed <= urls

C23_Invoked == pc = "call" /\ pc' = "download"

\* C23: a request gets at most one result, and only after download_audio was
\* invoked for it; download_audio is invoked for a URL once, and never after its
\* result was put; the k-th result put carries completed = k, at most the total.
C23_TerminalIsFinal ==
    /\ []C23_Requests
    /\ [][C23_Invoked => (idx \notin handed /\ results_put[idx] = 0)]_vars

\* the worker has ended after a batch of two, each request with its one result
C23_Witness ==
    /\ worker = "dead" /\ urls = 2 /\ completed = 2 /\ handed = {1, 2}
    /\ \A i \in 1..2 : results_put[i] = 1

C24_BatchStarts == worker # "alive" /\ worker' = "alive"

C24_Frame ==
    /\ options' # options => (C24_BatchStarts /\ options' = CollectOptions(form.concurrent))
    /\ form' # form => (options' = options /\ passed' = passed)

\* C24: the options of a batch are those collected from the form when the batch
\* was started; they are assigned at no other moment, an edit of the form changes
\* neither them nor what a call was given, and every download_audio call of the
\* batch is given them.
C24_OptionsFixedAtStart ==
    /\ [](passed # NotPassed => passed = options)
    /\ [][C24_Frame]_vars

\* the batch was started with 2 in the field, the field was then set to 6, and
\* the call for the second URL was still given 2
C24_Witness ==
    /\ form.concurrent = FormInt(TRUE, 6)
    /\ options.concurrent_downloads = 2
    /\ pc = "download" /\ idx = 2 /\ passed = options

\* a step in which a worker thread begins to run
C28_Spawn == pc' = "init" /\ pc # "init"

\* a step that does what _start does to the state of the run: clears the cancel
\* event, empties the failure list, resets the cancelled flag or the counters of
\* the worker, sets the status line to "Starting", or puts the buttons in the
\* running state
C28_Reset ==
    \/ cancel_event /\ ~cancel_event'
    \/ run_errors # <<>> /\ run_errors' = <<>>
    \/ run_cancelled /\ ~run_cancelled'
    \/ status_var # "Starting" /\ status_var' = "Starting"
    \/ ~is_running /\ is_running'
    \/ start_btn = "normal" /\ start_btn' = "disabled"
    \/ urls' # urls
    \/ options' # options
    \/ completed' < completed

\* C28: there is one worker thread at most: it is alive exactly while it has a
\* position in _run_worker, and while it is alive no step spawns a thread, clears
\* a flag or resets the state of the run, so that _start has no effect then.
C28_OneWorkerAtATime ==
    /\ []((worker = "alive") <=> (pc # "idle"))
    /\ [][worker = "alive" => ~(C28_Spawn \/ C28_Reset)]_vars

\* the worker of a batch with a failure is still alive after its terminal message
\* was handled: the Start button is enabled and pressing it runs _start
C28_Witness ==
    /\ worker = "alive" /\ pc = "exit" /\ start_btn = "normal" /\ ~is_running
    /\ run_errors # <<>> /\ ~cancel_event

\* the handler of each terminal message, run in the present state of the
\* application, leaves it not running with the Start button enabled
C29_HandlerStops ==
    \A m \in {CancelledMsg, DoneMsg, ErrorMsg} :
        LET s == HandleQueueMessage(UiState, m)
        IN ~s.is_running /\ s.start_btn = "normal" /\ s.cancel_btn = "disabled"

\* the worker has left _run_worker only after putting its one terminal message
C29_ExitAfterTerminal ==
    (pc = "exit" \/ worker = "dead") =>
        /\ Len(terminals) = 1
        /\ sent # <<>> /\ sent[Len(sent)].type \in TerminalTypes

\* a poll that handles a terminal message
C29_TerminalNowHandled ==
    \E k \in (Len(handled) + 1)..Len(handled') : handled'[k].type \in TerminalTypes

\* C29: every path out of _run_worker puts a terminal message first; the handler
\* of each terminal message sets the running flag to false and enables Start;
\* and, the worker and the poll both being scheduled, a running application
\* eventually is not running, with Start enabled.
C29_BatchEventuallyEnds ==
    /\ [](C29_HandlerStops /\ C29_ExitAfterTerminal)
    /\ [][C29_TerminalNowHandled => (~is_running' /\ start_btn' = "normal")]_vars
    /\ is_running ~> (~is_running /\ start_btn = "normal")

\* a batch cancelled before its second URL has returned the application to the
\* not-running state while its thread has not ended yet
C29_Witness ==
    /\ terminals = <<"cancelled">> /\ TerminalHandled /\ queue = <<>>
    /\ ~is_running /\ start_btn = "normal" /\ run_cancelled /\ worker = "alive"
    /\ urls = 2 /\ completed = 1

\* the batch worker has not put its terminal message yet
C30_BatchAtWork == pc \notin {"idle", "exit"}

\* C30: the running flag and the previewing flag are never both true; at most one
\* preview thread is in flight, and none while the batch worker is at work or the
\* running flag is set; no batch worker is at work while the previewing flag is set.
C30_BatchAndPreviewExclusive ==
    /\ ~(is_running /\ preview.is_previewing)
    /\ preview.in_flight <= 1
    /\ (is_running \/ C30_BatchAtWork) => preview.in_flight = 0
    /\ preview.is_previewing => ~C30_BatchAtWork
    /\ preview.in_flight = 1 => preview.is_previewing

\* a preview is in flight after a batch has ended, Start and Preview both disabled
\* and the stop of the preview already requested
C30_Witness ==
    /\ preview.is_previewing /\ preview.in_flight = 1 /\ preview.preview_cancel_event
    /\ start_btn = "disabled" /\ preview.preview_btn = "disabled"
    /\ ~is_running /\ worker \in {"alive", "dead"} /\ terminals # <<>>

(* ====================================================================== *)
(* Properties of YouTubeConverter.download (specification DlSpec)         *)
(* ====================================================================== *)

\* The first attempt of the call failed with the text raw.
FirstFailedWith(texts) == Len(dl.errors) >= 1 /\ dl.errors[1] \in texts

(* C5: a first attempt that fails with a text that is not of the 403 kind  *)
(* is never retried with the fallback options; a first attempt that fails  *)
(* with a text of the 403 kind is retried exactly once, with the fallback  *)
(* options, and never again: one call makes at most two attempts.          *)
C5_FallbackAtMostOnce ==
    dl.pc # "idle" =>
        /\ dl.attempts \in {<<>>, <<"original">>, <<"original", "fallback">>}
        /\ FirstFailedWith(OtherTexts \cup {CancelledText}) => dl.attempts = <<"original">>
        /\ FirstFailedWith(ForbiddenTexts) => dl.attempts = <<"original", "fallback">>
        /\ Len(dl.attempts) = 2 => FirstFailedWith(ForbiddenTexts)
        /\ Len(dl.errors) <= Len(dl.attempts)
        /\ Len(dl.errors) = 2 => dl.pc = "returned"

\* Both attempts failed with a 403 text (the coloured ones): the call has returned
\* after exactly two attempts.
C5_Witness ==
    /\ dl.pc = "returned"
    /\ dl.attempts = <<"original", "fallback">>
    /\ dl.errors = <<Err403ColourInside, Err403Coloured>>


\* Steps of an attempt made while the cancel event is set.
C20_NoHookPasses ==
    (dl.pc = "attempt" /\ dl.cancel_event = "set") =>
        /\ dl'.hooks <= dl.hooks
        /\ dl'.any_downloaded = dl.any_downloaded
        /\ dl'.downloaded_file = dl.downloaded_file

\* What a cancellation raised by the hook leads to.
C20_CancelledAtOnce ==
    dl.pc # "idle" =>
      \A k \in DOMAIN dl.errors :
        dl.errors[k] = CancelledText =>
            /\ k = Len(dl.errors)
            /\ Len(dl.attempts) = k
            /\ dl.pc = "returned"
            /\ dl.ret = Return(FALSE, "None", FailedPrefix \o CancelledText)
            /\ ~Contains(dl.ret.error, Hint)

(* C20: a progress-hook invocation made while the cancel event is set      *)
(* never passes: it raises, the attempt in progress ends there, and        *)
(* download returns the failure "Download cancelled by user" at once; no   *)
(* attempt follows it (it starts no fallback attempt) and its message      *)
(* carries no HTTP 403 hint, also when it is the fallback attempt that was *)
(* cancelled.                                                              *)
C20_CancelFailsFast == []C20_CancelledAtOnce /\ [][C20_NoHookPasses]_vars

\* The first attempt failed with a 403 text and the hook cancelled the fallback
\* attempt: the message is the cancellation, without the hint.
C20_Witness ==
    /\ dl.pc = "returned"
    /\ dl.errors = <<Err403Coloured, CancelledText>>
    /\ dl.attempts = <<"original", "fallback">>
    /\ dl.ret.error = FailedPrefix \o CancelledText

\* State part of C18.
C18_ArchiveKept ==
    dl.pc = "returned" =>
        /\ (dl.archive_file /\ dl.ret.success) => dl.url \in archive
        /\ dl.known => /\ ~dl.did_download
                       /\ dl.attempts # <<>> =>
                             /\ dl.attempts = <<"original">>
                             /\ dl.ret = Return(FALSE, "None", SkippedText)

C21_AttemptBegins == Len(dl'.attempts) > Len(dl.attempts)

\* C21: no extraction attempt begins while the cancel event is set: not the
\* first one of a call made with the event set, and not the fallback one after
\* a first failure of the HTTP 403 kind.
C21_NoAttemptBeginsCancelled ==
    [][(dl.pc \in {"setup", "attempt"} /\ dl.cancel_event = "set") => ~C21_AttemptBegins]_vars

C25_FallbackFailed403 ==
    /\ dl.attempts = <<"original", "fallback">>
    /\ Len(dl.errors) = 2
    /\ _is_forbidden_error(_strip_ansi(dl.errors[2]))

\* C25: what download returns carries the hint exactly when the fallback attempt
\* was made and failed with an error of the HTTP 403 kind, and then the hint
\* follows that error's text; a failure of the first attempt alone, a fallback
\* failure of another kind, a skip and a success carry none.
C25_HintIffFallback403 ==
    dl.pc = "returned" =>
        /\ Contains(dl.ret.error, Hint) <=> C25_FallbackFailed403
        /\ C25_FallbackFailed403 =>
              dl.ret.error = FailedPrefix \o _strip_ansi(dl.errors[2]) \o Hint

\* both attempts were refused, and the return carries the hint
C25_Witness ==
    /\ dl.pc = "returned"
    /\ dl.errors = <<Err403Coloured, ErrUnableToDownload>>
    /\ dl.ret.error = FailedPrefix \o ErrUnableToDownload \o Hint

(* ====================================================================== *)
(* Properties of _collect_options (specification OptSpec)                 *)
(* ====================================================================== *)

(* C19: for every value of the form fields the concurrency bound handed to *)
(* a batch lies in 1..5 (a value below 1 becomes 1, a value above 5        *)
(* becomes 5, an unreadable value becomes 1, any other value is kept), and *)
(* the retry count is an integer in 0..10.                                 *)
C19_OptionsClamped ==
    collected.done =>
        /\ collected.concurrent_downloads \in 1..5
        /\ collected.concurrent_downloads =
              (IF ~form.concurrent.ok THEN 1
               ELSE IF form.concurrent.val < 1 THEN 1
               ELSE IF form.concurrent.val > 5 THEN 5
               ELSE form.concurrent.val)
        /\ collected.retries \in 0..10
        /\ (form.retries.ok /\ form.retries.val \in 0..10) =>
              collected.retries = form.retries.val

\* Both fields above their range: 7 concurrent downloads and 12 retries.
C19_Witness ==
    /\ collected.done
    /\ form = [concurrent |-> FormInt(TRUE, 7), retries |-> FormInt(TRUE, 12)]
    /\ collected.concurrent_downloads = 5 /\ collected.retries = 10

\* the triple download has returned: (True, path, None) with the file the hook
\* recorded, or (False, None, message) with a message that is not empty
C35_TripleWellFormed ==
    dl.pc = "returned" =>
        /\ dl.ret.returned
        /\ \/ dl.ret.success /\ dl.ret.path = dl.downloaded_file /\ dl.ret.error = <<>>
           \/ ~dl.ret.success /\ dl.ret.path = "None" /\ dl.ret.error # <<>>
        /\ dl.ret.success <=> (dl.ret.error = <<>>)

\* C35: a call of download ends in no other way than by returning: a failure of
\* the setup, of the first attempt or of the fallback attempt leads to a returned
\* triple, which is (True, path, None) or (False, None, non-empty message), so
\* that success is true exactly when the message is None.
C35_AlwaysReturnsTriple ==
    /\ []C35_TripleWellFormed
    /\ [][dl.pc \in {"setup", "attempt"} =>
             /\ dl'.pc \in {"setup", "attempt", "returned"}
             /\ Len(dl'.errors) > Len(dl.errors) =>
                   \/ dl'.pc = "returned" /\ ~dl'.ret.success
                   \/ dl'.pc = "attempt" /\ dl'.attempts = <<"original", "fallback">>]_vars

\* the call has returned a failure for an exception raised before the first attempt
C35_Witness ==
    /\ dl.pc = "returned" /\ dl.attempts = <<>> /\ dl.errors = <<>>
    /\ ~dl.ret.success /\ dl.ret.error = FailedPrefix \o <<"ERROR: ", "Network is unreachable">>

(* C33 as stated: download reports success only when the attempt that      *)
(* completed without error has itself signalled a finished file; an        *)
(* attempt that completes without one is reported as skipped, whatever the *)
(* failed first attempt had signalled before.                              *)
C33_SuccessFromCompletingAttempt ==
    (dl.pc = "returned" /\ dl.ret.error \in {<<>>, SkippedText}) =>
        /\ dl.ret.success => dl.finished_now
        /\ ~dl.finished_now => (~dl.ret.success /\ dl.ret.error = SkippedText)

(* ====================================================================== *)
(* Properties of the preview (specifications PreviewSpec, PreviewFairSpec) *)
(* ====================================================================== *)

\* how many preview_complete messages the thread of the last preview has put
C31_Completes == Len(SelectSeq(preview.puts, LAMBDA t : t = "preview_complete"))

\* the thread of a started preview puts no preview_complete while it is in
\* _preview_worker, and has put exactly one, as its last message, when it has left
C31_OneCompleteLast ==
    /\ preview.pc # "idle" => C31_Completes = 0
    /\ (preview.pc = "idle" /\ preview.previews > 0) =>
          /\ C31_Completes = 1
          /\ preview.puts[Len(preview.puts)] = "preview_complete"

\* the handler of preview_complete, run in the present state
C31_HandlerRestores ==
    LET s == HandleQueueMessage(UiState, [type |-> "preview_complete"])
    IN ~s.is_previewing /\ s.preview_btn = "normal" /\ s.start_btn = "normal"

\* a poll that handles a preview_complete message
C31_CompleteNowHandled ==
    \E k \in (Len(handled) + 1)..Len(handled') : handled'[k].type = "preview_complete"

\* C31: every started preview puts exactly one preview_complete, as its last
\* message, whatever its outcome; handling it resets the previewing flag and
\* enables Preview and Start; and a preview that was started eventually is over.
C31_PreviewAlwaysCompletes ==
    /\ [](C31_OneCompleteLast /\ C31_HandlerRestores)
    /\ [][C31_CompleteNowHandled =>
             (~preview'.is_previewing /\ preview'.preview_btn = "normal"
              /\ start_btn' = "normal")]_vars
    /\ preview.is_previewing ~> ~preview.is_previewing

\* a preview stopped by the user has ended, its preview_complete handled
C31_Witness ==
    /\ preview.previews = 1 /\ preview.pc = "idle" /\ preview.preview_cancel_event
    /\ ~preview.is_previewing /\ start_btn = "normal" /\ preview.preview_btn = "normal"
    /\ preview.puts[Len(preview.puts)] = "preview_complete" /\ queue = <<>>

\* the preview thread puts preview_ready in this step
C34_ReadyPut ==
    /\ Len(preview'.puts) > Len(preview.puts)
    /\ preview'.puts[Len(preview'.puts)] = "preview_ready"

(* C34 as stated: once the preview cancel event is set, the preview thread *)
(* puts no preview_ready message, however the stop request and the steps   *)
(* of the thread interleave.                                               *)
C34_NoReadyAfterStop ==
    [][preview.preview_cancel_event => ~C34_ReadyPut]_vars

(* ====================================================================== *)
(* Properties of batches run one after the other (specification RerunSpec) *)
(* ====================================================================== *)

(* C32 as stated: when a new batch begins, the failure list is empty, the  *)
(* run-cancelled flag is false and the last-seen playlist index is unset,  *)
(* however the batch before it ended.                                      *)
C32_BatchStartsClean ==
    [][C24_BatchStarts =>
         (run_errors' = <<>> /\ ~run_cancelled' /\ last_playlist_index' = 0)]_vars

(* ====================================================================== *)
(* Properties of _poll_queue as a Tk callback (specification ConsumerSpec) *)
(* ====================================================================== *)

====
